---- MODULE Spec2Model ----
(***************************************************************************)
(* Obsidian YAML Form: the schema-driven form engine of src/src/ui.ts and  *)
(* the helpers of src/src/utils.ts, as a state machine.                    *)
(*                                                                         *)
(* JavaScript values are tagged records [t, v]; t is the typeof-like tag   *)
(* and sorts before the payload v, so values of different kinds compare    *)
(* unequal without comparing payloads.  A string value is a sequence of    *)
(* one-character strings, so trim, toLowerCase and includes are computed.  *)
(* A dot-path ("a.b.c") is the sequence of its segments (<<"a","b","c">>), *)
(* the empty path is << >>; array indices are the segments "0", "1", ...   *)
(***************************************************************************)
EXTENDS Integers, Sequences, FiniteSets, TLC

VARIABLES
    cfg,            \* the form rendered, modelRoot, autosave, plugin setting (fixed)
    doc,            \* the live document's frontmatter (the file, owned by the host)
    fm,             \* the metadata-cache frontmatter object read at render
    aliased,        \* TRUE iff stagedModel is the same object as the fm subtree
    stagedModel,    \* ui.ts:40
    saveBtnDisabled,\* ui.ts:53  (the dirty flag is ~saveBtnDisabled)
    status,         \* ui.ts:49  text of the status span
    visNodes,       \* ui.ts:57  visibility registry
    shown,          \* per visNodes entry: [label, holder] display state
    inputs,         \* value held by each top-level control (DOM state)
    cards,          \* per repeater field: number of mounted item cards
    nPending,       \* saves whose processFrontMatter updater has not run yet
    nWritten,       \* saves whose updater ran, continuation after await pending
    repOps,         \* repeater events handled so far (bounds the exploration)
    probe           \* the result of the function a function-level specification applies

vars == <<cfg, doc, fm, aliased, stagedModel, saveBtnDisabled, status, visNodes,
          shown, inputs, cards, nPending, nWritten, repOps, probe>>

-----------------------------------------------------------------------------
(* Values *)

Undef == [t |-> "undefined", v |-> 0]
Null == [t |-> "null", v |-> 0]
NaN == [t |-> "nan", v |-> 0]
\* a function object (an inherited method read as a property)
Fn == [t |-> "function", v |-> 0]
Str(s) == [t |-> "string", v |-> s]
Num(n) == [t |-> "number", v |-> n]
Bool(b) == [t |-> "boolean", v |-> b]
Arr(a) == [t |-> "array", v |-> a]
Obj(f) == [t |-> "object", v |-> f]
EmptyMap == [k \in {} |-> Undef]
EmptyObj == Obj(EmptyMap)

\* typeof x === "object" && x  (a non-null object or array)
IsObjectLike(x) == x.t \in {"object", "array"}

\* !!x
Truthy(x) ==
    CASE x.t = "undefined" -> FALSE
      [] x.t = "null" -> FALSE
      [] x.t = "nan" -> FALSE
      [] x.t = "string" -> x.v # << >>
      [] x.t = "number" -> x.v # 0
      [] x.t = "boolean" -> x.v
      [] OTHER -> TRUE

\* a === b : primitives by value, objects by reference (a schema literal and a
\* model value are never the same object)
StrictEq(a, b) ==
    /\ a.t = b.t
    /\ a.t \notin {"object", "array", "nan"}
    /\ a = b

\* x ?? d
Coalesce(x, d) == IF x.t \in {"undefined", "null"} THEN d ELSE x

-----------------------------------------------------------------------------
(* Array index segments *)

IdxKeys == <<"0", "1", "2", "3", "4", "5", "6", "7">>
IsIdxKey(k) == \E i \in 1..Len(IdxKeys) : IdxKeys[i] = k
\* 1-based position of the element that segment k names
IdxOf(k) == CHOOSE i \in 1..Len(IdxKeys) : IdxKeys[i] = k
\* the segment naming 0-based index i
IdxKey(i) == IdxKeys[i + 1]

\* the Array.prototype methods a property name of the forms can hit
ArrayMethods == {"values", "keys", "entries"}

\* o[k]: an own property, or for an array an inherited method
Prop(o, k) ==
    CASE o.t = "object" -> IF k \in DOMAIN o.v THEN o.v[k] ELSE Undef
      [] o.t = "array" ->
            IF IsIdxKey(k) /\ IdxOf(k) <= Len(o.v) THEN o.v[IdxOf(k)]
            ELSE IF k \in ArrayMethods THEN Fn
            ELSE Undef
      [] OTHER -> Undef

\* o[k] = x  (o is an object or an array).  An index past the end leaves
\* holes, which read as undefined; a non-index property of an array is not
\* part of its JSON form and is dropped here.
PutProp(o, k, x) ==
    CASE o.t = "object" -> Obj([j \in DOMAIN o.v \cup {k} |-> IF j = k THEN x ELSE o.v[j]])
      [] o.t = "array" ->
            IF IsIdxKey(k)
            THEN Arr([i \in 1..(IF IdxOf(k) > Len(o.v) THEN IdxOf(k) ELSE Len(o.v)) |->
                        IF i = IdxOf(k) THEN x
                        ELSE IF i <= Len(o.v) THEN o.v[i] ELSE Undef])
            ELSE o
      [] OTHER -> o

-----------------------------------------------------------------------------
(* utils.ts *)

RECURSIVE deepCloneJson(_)
\* JSON.parse(JSON.stringify(x)): undefined- and function-valued keys are
\* dropped, undefined, function and NaN array elements become null
deepCloneJson(x) ==
    CASE x.t = "object" ->
            Obj([k \in {j \in DOMAIN x.v : x.v[j].t \notin {"undefined", "function"}} |->
                    deepCloneJson(x.v[k])])
      [] x.t = "array" ->
            Arr([i \in 1..Len(x.v) |->
                    IF x.v[i].t \in {"undefined", "function", "nan"} THEN Null
                    ELSE deepCloneJson(x.v[i])])
      [] x.t = "nan" -> Null
      [] OTHER -> x

\* The clone shares no object with its argument (fresh = TRUE).
\* the model root handed on without a copy
deepCloneShared(x) == [val |-> Coalesce(x, EmptyObj), fresh |-> FALSE]

deepClone(x) == [val |-> deepCloneJson(Coalesce(x, EmptyObj)), fresh |-> TRUE]

RECURSIVE getAtPath(_, _)
getAtPath(obj, path) ==
    IF path = << >> THEN obj
    ELSE getAtPath(IF IsObjectLike(obj) THEN Prop(obj, Head(path)) ELSE Undef, Tail(path))

RECURSIVE setIn(_, _, _)
\* the loop of setAtPath from the object cur on, as the updated copy of cur
setIn(cur, parts, value) ==
    IF Len(parts) = 1 THEN PutProp(cur, parts[1], value)
    ELSE LET k == parts[1]
             c == Prop(cur, k)
             next == IF ~Truthy(c) \/ ~IsObjectLike(c) THEN EmptyObj ELSE c
         IN  PutProp(cur, k, setIn(next, Tail(parts), value))

\* setAtPath that writes only where the intermediate objects already exist
setAtPathNoCreate(obj, path, value) ==
    IF path = << >> THEN value
    ELSE IF IsObjectLike(getAtPath(obj, SubSeq(path, 1, Len(path) - 1)))
         THEN setIn(obj, path, value)
         ELSE obj

setAtPath(obj, path, value) ==
    IF path = << >> THEN value ELSE setIn(obj, path, value)

joinPath(root, sub) ==
    IF root = << >> THEN sub
    ELSE IF sub = << >> THEN root
    ELSE root \o sub

-----------------------------------------------------------------------------
(* Strings: sequences of characters *)

UpperChars == <<"A","B","C","D","E","F","G","H","I","J","K","L","M",
                "N","O","P","Q","R","S","T","U","V","W","X","Y","Z">>
LowerChars == <<"a","b","c","d","e","f","g","h","i","j","k","l","m",
                "n","o","p","q","r","s","t","u","v","w","x","y","z">>
DigitChars == <<"0","1","2","3","4","5","6","7","8","9">>
IsSpace(c) == c = " "
IsDigit(c) == \E i \in 1..10 : DigitChars[i] = c
DigitVal(c) == (CHOOSE i \in 1..10 : DigitChars[i] = c) - 1

LowerChar(c) ==
    IF \E i \in 1..26 : UpperChars[i] = c
    THEN LowerChars[CHOOSE i \in 1..26 : UpperChars[i] = c]
    ELSE c

\* s.toLowerCase()
toLowerCase(s) == [i \in 1..Len(s) |-> LowerChar(s[i])]

\* s.includes(sub)
includes(s, sub) ==
    \E i \in 0..(Len(s) - Len(sub)) : SubSeq(s, i + 1, i + Len(sub)) = sub

RECURSIVE trimStart(_)
trimStart(s) == IF s # << >> /\ IsSpace(Head(s)) THEN trimStart(Tail(s)) ELSE s
RECURSIVE trimEnd(_)
trimEnd(s) ==
    IF s # << >> /\ IsSpace(s[Len(s)]) THEN trimEnd(SubSeq(s, 1, Len(s) - 1)) ELSE s
\* s.trim()
trim(s) == trimEnd(trimStart(s))

RECURSIVE natToChars(_)
natToChars(n) ==
    IF n < 10 THEN <<DigitChars[n + 1]>>
    ELSE natToChars(n \div 10) \o <<DigitChars[(n % 10) + 1]>>

\* String(x) for the primitives the forms hold
toStringChars(x) ==
    CASE x.t = "string" -> x.v
      [] x.t = "number" -> IF x.v < 0 THEN <<"-">> \o natToChars(-x.v) ELSE natToChars(x.v)
      [] x.t = "boolean" -> IF x.v THEN <<"t","r","u","e">> ELSE <<"f","a","l","s","e">>
      [] x.t = "null" -> <<"n","u","l","l">>
      [] x.t = "undefined" -> <<"u","n","d","e","f","i","n","e","d">>
      [] x.t = "nan" -> <<"N","a","N">>
      [] OTHER -> << >>

RECURSIVE digitsValue(_, _)
digitsValue(s, acc) ==
    IF s = << >> THEN acc ELSE digitsValue(Tail(s), acc * 10 + DigitVal(Head(s)))

\* Number(s) for a string of the model's alphabet: surrounding whitespace is
\* ignored, the empty string is 0, an optionally signed run of digits is its
\* value, anything else is NaN
NumberOfChars(s) ==
    LET u == trim(s)
        neg == u # << >> /\ Head(u) = "-"
        d == IF neg THEN Tail(u) ELSE u
    IN  IF u = << >> THEN Num(0)
        ELSE IF d # << >> /\ \A i \in 1..Len(d) : IsDigit(d[i])
             THEN Num(IF neg THEN -digitsValue(d, 0) ELSE digitsValue(d, 0))
             ELSE NaN

\* Number(x)
ToNumber(x) ==
    CASE x.t = "string" -> NumberOfChars(x.v)
      [] x.t = "number" -> x
      [] x.t = "boolean" -> Num(IF x.v THEN 1 ELSE 0)
      [] x.t = "null" -> Num(0)
      [] OTHER -> NaN

\* Number.isFinite(x)
isFinite(x) == x.t = "number"

-----------------------------------------------------------------------------
(* utils.ts, continued.  A field kind is the string of its `type` key, ""   *)
(* when the key is absent.                                                  *)

coerceScalar(type, raw) ==
    IF type = "number"
    THEN LET n == ToNumber(raw) IN IF isFinite(n) THEN n ELSE Null
    ELSE IF type = "checkbox" THEN Bool(Truthy(raw))
    ELSE IF type \in {"date", "time", "datetime-local"}
         THEN (IF Truthy(raw) THEN raw ELSE Null)
    ELSE Coalesce(raw, Null)

(* A visibleIf condition is a record [some, path, equals, notEquals,        *)
(* contains, isTruthy, isFalsy]: some = FALSE is an absent condition, an    *)
(* absent predicate key holds Undef.                                        *)
NoCond ==
    [some |-> FALSE, path |-> << >>, equals |-> Undef, notEquals |-> Undef,
     contains |-> Undef, isTruthy |-> Undef, isFalsy |-> Undef]

\* the evaluator that looks at the first key present and at no other
isVisibleFirstPresent(visibleIf, model, bindPathForItem) ==
    IF ~visibleIf.some THEN TRUE
    ELSE LET checkPath == IF bindPathForItem # << >>
                          THEN bindPathForItem \o visibleIf.path
                          ELSE visibleIf.path
             val == getAtPath(model, checkPath)
         IN  IF visibleIf.equals.t # "undefined" THEN StrictEq(val, visibleIf.equals)
             ELSE IF visibleIf.notEquals.t # "undefined"
                  THEN ~StrictEq(val, visibleIf.notEquals)
             ELSE IF visibleIf.contains.t # "undefined"
                  THEN IF val.t = "string"
                       THEN includes(toLowerCase(val.v),
                                     toLowerCase(toStringChars(visibleIf.contains)))
                       ELSE TRUE
             ELSE IF visibleIf.isTruthy.t # "undefined"
                  THEN (IF Truthy(visibleIf.isTruthy) THEN Truthy(val) ELSE TRUE)
             ELSE IF Truthy(visibleIf.isFalsy) THEN ~Truthy(val)
             ELSE TRUE

isVisible(visibleIf, model, bindPathForItem) ==
    IF ~visibleIf.some THEN TRUE
    ELSE LET checkPath == IF bindPathForItem # << >>
                          THEN bindPathForItem \o visibleIf.path
                          ELSE visibleIf.path
             val == getAtPath(model, checkPath)
         IN  IF visibleIf.equals.t # "undefined" THEN StrictEq(val, visibleIf.equals)
             ELSE IF visibleIf.notEquals.t # "undefined"
                  THEN ~StrictEq(val, visibleIf.notEquals)
             ELSE IF visibleIf.contains.t # "undefined" /\ val.t = "string"
                  THEN includes(toLowerCase(val.v),
                                toLowerCase(toStringChars(visibleIf.contains)))
             ELSE IF Truthy(visibleIf.isTruthy) THEN Truthy(val)
             ELSE IF Truthy(visibleIf.isFalsy) THEN ~Truthy(val)
             ELSE TRUE

-----------------------------------------------------------------------------
(* types.ts: a field is [path, type, required, visibleIf, options,          *)
(* itemSchema]; itemSchema is << >> for a scalar field.  A form schema is   *)
(* [modelRoot, autosave, fields]; autosave is Undef when the key is absent. *)

Field(path, type, required, visibleIf, options) ==
    [path |-> path, type |-> type, required |-> required, visibleIf |-> visibleIf,
     options |-> options, itemSchema |-> << >>]

Repeater(path, visibleIf, itemSchema) ==
    [path |-> path, type |-> "repeater", required |-> FALSE, visibleIf |-> visibleIf,
     options |-> << >>, itemSchema |-> itemSchema]

RECURSIVE Flatten(_)
\* the concatenation of a sequence of sequences
Flatten(ss) == IF ss = << >> THEN << >> ELSE Head(ss) \o Flatten(Tail(ss))

-----------------------------------------------------------------------------
(* The forms explored *)

sHappy == <<"H","a","p","p","y">>
sSad == <<"S","a","d">>
sNote == <<"n","o","t","e">>
sPost == <<"p","o","s","t">>

Equals(path, x) == [NoCond EXCEPT !.some = TRUE, !.path = path, !.equals = x]

\* README "Conditional Fields (visibleIf)"
CondFields ==
    <<Field(<<"mood">>, "select", FALSE, NoCond, <<sHappy, sSad>>),
      Field(<<"comment">>, "textarea", FALSE, Equals(<<"mood">>, Str(sSad)), << >>)>>
CondData == ("mood" :> Str(sHappy)) @@ ("comment" :> Str(<< >>))

\* a required field, a required field shown on a condition, and the field it depends on
ReqFields ==
    <<Field(<<"kind">>, "select", FALSE, NoCond, <<sNote, sPost>>),
      Field(<<"title">>, "", TRUE, NoCond, << >>),
      Field(<<"sub">>, "text", TRUE, Equals(<<"kind">>, Str(sPost)), << >>)>>
ReqData == ("kind" :> Str(sNote)) @@ ("title" :> Str(<< >>)) @@ ("sub" :> Str(<< >>))

\* a repeater of named items
RepFields ==
    <<Repeater(<<"items">>, NoCond, <<Field(<<"name">>, "text", TRUE, NoCond, << >>)>>)>>
RepData ==
    "items" :> Arr(<<Obj("name" :> Str(<<"A">>)), Obj("name" :> Str(<<"B">>)),
                     Obj("name" :> Str(<<"C">>))>>)

\* a note, a list of numbers and a repeater of items holding a list of numbers
CsvFields ==
    <<Field(<<"note">>, "text", FALSE, NoCond, << >>),
      Field(<<"nums">>, "csv-number", FALSE, NoCond, << >>),
      Repeater(<<"sets">>, NoCond, <<Field(<<"reps">>, "csv-number", FALSE, NoCond, << >>)>>)>>
CsvData ==
    ("note" :> Str(<< >>)) @@ ("nums" :> Arr(<<Num(1), Num(2)>>))
    @@ ("sets" :> Arr(<<Obj("reps" :> Arr(<<Num(5)>>))>>))

\* a form is named in the state; "custom" carries its fields in cfg.custom
FormFields(name) ==
    CASE name = "cond" -> CondFields
      [] name = "req" -> ReqFields
      [] name = "rep" -> RepFields
      [] name = "csv" -> CsvFields
      [] name = "seq" -> RepFields

FormData(name) ==
    CASE name = "cond" -> CondData
      [] name = "req" -> ReqData
      [] name = "rep" -> RepData
      [] name = "csv" -> CsvData

\* Array.isArray(ui.fields) ? ui.fields : []
usableFields(x) == IF x.t = "array" THEN x.v ELSE << >>

\* the fields of a form; cfg.custom is the `fields` entry of a "custom" schema
FieldsOf(c) == IF c.form = "custom" THEN usableFields(c.custom) ELSE FormFields(c.form)

-----------------------------------------------------------------------------
(* ui.ts: collectInvalids *)

\* v == null || (typeof v === "string" && v.trim() === "") || (Array.isArray(v) && v.length === 0)
isEmptyValue(v) ==
    \/ v.t \in {"undefined", "null"}
    \/ (v.t = "string" /\ trim(v.v) = << >>)
    \/ (v.t = "array" /\ Len(v.v) = 0)

\* checkField without the visibility test
checkFieldShownOrNot(f, bindPath, model) ==
    IF ~f.required THEN << >>
    ELSE IF isEmptyValue(getAtPath(model, bindPath)) THEN <<bindPath>>
    ELSE << >>

checkField(f, bindPath, model) ==
    IF ~f.required THEN << >>
    ELSE IF ~isVisible(f.visibleIf, model, << >>) THEN << >>
    ELSE IF isEmptyValue(getAtPath(model, bindPath)) THEN <<bindPath>>
    ELSE << >>

\* the body of itemSchema.forEach for item i (0-based) of the repeater at bindPath
checkItemField(sf, bindPath, i, model) ==
    LET p == bindPath \o <<IdxKey(i)>> \o sf.path IN
    IF ~isVisible(sf.visibleIf, model, bindPath \o <<IdxKey(i)>>) THEN << >>
    ELSE IF sf.required /\ isEmptyValue(getAtPath(model, p)) THEN <<p>>
    ELSE << >>

\* the items of the array a repeater edits (getAtPath(...) ?? []); forEach
\* over them is modelled for arrays only
itemsAt(model, bindPath) ==
    LET a == getAtPath(model, bindPath) IN IF a.t = "array" THEN a.v ELSE << >>

\* the repeater pass with the loops exchanged: itemSchema outside, items inside
collectInvalidsFieldMajor(fields, modelRoot, model) ==
    Flatten([k \in 1..Len(fields) |->
        LET f == fields[k]
            bindPath == joinPath(modelRoot, f.path)
        IN  IF f.type = "repeater"
            THEN Flatten([j \in 1..Len(f.itemSchema) |->
                    Flatten([i \in 1..Len(itemsAt(model, bindPath)) |->
                        checkItemField(f.itemSchema[j], bindPath, i - 1, model)])])
            ELSE checkField(f, bindPath, model)])

collectInvalids(fields, modelRoot, model) ==
    Flatten([k \in 1..Len(fields) |->
        LET f == fields[k]
            bindPath == joinPath(modelRoot, f.path)
        IN  IF f.type = "repeater"
            THEN Flatten([i \in 1..Len(itemsAt(model, bindPath)) |->
                    Flatten([j \in 1..Len(f.itemSchema) |->
                        checkItemField(f.itemSchema[j], bindPath, i - 1, model)])])
            ELSE checkField(f, bindPath, model)])

-----------------------------------------------------------------------------
(* ui.ts: render *)

\* arr.join(", ") : null and undefined elements print as ""
RECURSIVE joinCsv(_)
joinCsv(a) ==
    LET one(x) == IF x.t \in {"undefined", "null"} THEN << >> ELSE toStringChars(x) IN
    IF a = << >> THEN << >>
    ELSE IF Len(a) = 1 THEN one(a[1])
    ELSE one(a[1]) \o <<",", " ">> \o joinCsv(Tail(a))

toCsvNumbers(arr) == IF arr.t = "array" THEN joinCsv(arr.v) ELSE << >>
toCsvText(arr) == IF arr.t = "array" THEN joinCsv(arr.v) ELSE << >>

\* the value a freshly built control holds, given the model value `current`
initialInput(f, current) ==
    CASE f.type = "select" ->
            \* the last option marked selected wins; with none the first option shows
            LET hits == {i \in 1..Len(f.options) :
                            f.options[i] = toStringChars(current)}
            IN  IF hits # {} THEN Str(f.options[CHOOSE i \in hits : \A j \in hits : j <= i])
                ELSE IF f.options # << >> THEN Str(f.options[1])
                ELSE Str(<< >>)
      [] f.type = "checkbox" -> Bool(Truthy(current))
      [] f.type = "csv-number" ->
            Str(toCsvNumbers(IF current.t = "array" THEN current ELSE Arr(<< >>)))
      [] f.type = "csv-text" ->
            Str(toCsvText(IF current.t = "array" THEN current ELSE Arr(<< >>)))
      [] OTHER -> Str(toStringChars(Coalesce(current, Str(<< >>))))

\* the visibility nodes refresh() registers: one per (item, itemSchema field)
itemNodes(k, rf, bindPath, model) ==
    Flatten([i \in 1..Len(itemsAt(model, bindPath)) |->
        [j \in 1..Len(rf.itemSchema) |->
            [ref |-> <<k, j>>,
             bindPath |-> bindPath \o <<IdxKey(i - 1)>> \o rf.itemSchema[j].path,
             itemBase |-> bindPath \o <<IdxKey(i - 1)>>,
             hasLabel |-> FALSE]]])

\* node.field: a node refers to its schema field, <<k, 0>> for top-level field
\* k and <<k, j>> for itemSchema field j of repeater k
nodeField(fs, node) ==
    IF node.ref[2] = 0 THEN fs[node.ref[1]] ELSE fs[node.ref[1]].itemSchema[node.ref[2]]

\* updateVisibility over the registry `nodes`; `old` is the display state so
\* far (elements are created shown)
updateVisibility(fs, nodes, model, old) ==
    [i \in 1..Len(nodes) |->
        LET visible == isVisible(nodeField(fs, nodes[i]).visibleIf, model, nodes[i].itemBase)
            was == IF i <= Len(old) THEN old[i] ELSE [label |-> TRUE, holder |-> TRUE]
        IN  [label |-> IF nodes[i].hasLabel THEN visible ELSE was.label,
             holder |-> visible]]

\* renderScalar / renderRepeater for field k, on the render state so far
renderField(acc, k, f, root) ==
    LET bindPath == joinPath(root, f.path)
        row == [ref |-> <<k, 0>>, bindPath |-> bindPath, itemBase |-> << >>,
                hasLabel |-> TRUE]
    IN  IF f.type = "repeater"
        THEN LET arr == getAtPath(acc.model, bindPath)
                 m2 == IF arr.t # "array" THEN setAtPath(acc.model, bindPath, Arr(<< >>))
                       ELSE acc.model
             IN  [model |-> m2,
                  nodes |-> acc.nodes \o <<row>> \o itemNodes(k, f, bindPath, m2),
                  inputs |-> Append(acc.inputs, Undef),
                  cards |-> Append(acc.cards, Len(itemsAt(m2, bindPath)))]
        ELSE [model |-> acc.model,
              nodes |-> Append(acc.nodes, row),
              inputs |-> Append(acc.inputs, initialInput(f, getAtPath(acc.model, bindPath))),
              cards |-> Append(acc.cards, 0)]

RECURSIVE renderFields(_, _, _, _)
\* fields.forEach from field k on
renderFields(acc, k, fs, root) ==
    IF k > Len(fs) THEN acc
    ELSE renderFields(renderField(acc, k, fs[k], root), k + 1, fs, root)

\* render() of the form c on the frontmatter fmv: the staged model, registry,
\* controls and cards once it returns
render(fmv, c) ==
    LET clone == deepClone(Coalesce(getAtPath(fmv, c.modelRoot), EmptyObj))
        built == renderFields([model |-> clone.val, nodes |-> << >>, inputs |-> << >>,
                               cards |-> << >>], 1, FieldsOf(c), c.modelRoot)
    IN  [model |-> built.model, fresh |-> clone.fresh, nodes |-> built.nodes,
         shown |-> updateVisibility(FieldsOf(c), built.nodes, built.model, << >>),
         inputs |-> built.inputs, cards |-> built.cards]

-----------------------------------------------------------------------------
(* utils.ts: the CSV codec *)

RECURSIVE splitOn(_, _, _)
\* s.split(sep) for a one-character separator; cur is the token being read
splitOn(s, sep, cur) ==
    IF s = << >> THEN <<cur>>
    ELSE IF Head(s) = sep THEN <<cur>> \o splitOn(Tail(s), sep, << >>)
    ELSE splitOn(Tail(s), sep, Append(cur, Head(s)))

\* s.split(",").map(x => x.trim()).filter(Boolean)
csvTokens(s) ==
    LET toks == splitOn(s, ",", << >>)
        trimmed == [i \in 1..Len(toks) |-> trim(toks[i])]
    IN  SelectSeq(trimmed, LAMBDA x : x # << >>)

parseCsvText(s) ==
    IF s = << >> THEN Arr(<< >>)
    ELSE LET toks == csvTokens(s) IN Arr([i \in 1..Len(toks) |-> Str(toks[i])])

\* returns a plain array of the finite numbers
parseCsvNumbers(s) ==
    IF s = << >> THEN Arr(<< >>)
    ELSE LET toks == csvTokens(s)
             nums == [i \in 1..Len(toks) |-> NumberOfChars(toks[i])]
         IN  Arr(SelectSeq(nums, isFinite))

-----------------------------------------------------------------------------
(* The render in progress *)

modelRoot == cfg.modelRoot
fields == FieldsOf(cfg)
\* ui.autosave || this.settings.defaultAutosave
autosaveOr == Truthy(cfg.autosave) \/ cfg.defaultAutosave

\* ui.autosave ?? this.settings.defaultAutosave
autosave == Truthy(Coalesce(cfg.autosave, Bool(cfg.defaultAutosave)))

Status(k, n) == [k |-> k, n |-> n]
StReady == Status("Ready", 0)
StUnsaved == Status("Unsaved changes", 0)
StSaved == Status("Saved", 0)
StFixErrors == Status("Fix errors before saving", 0)
StInvalid(n) == Status("Please fill required fields", n)

\* bounds of the exploration
MaxInflight == 2
MaxRepOps == 1
MaxSeqOps == 3

\* repeater events explored per render: sequences of them on the form "seq"
opsBound == IF cfg.form = "seq" THEN MaxSeqOps ELSE MaxRepOps

inflightRoom == nPending + nWritten < MaxInflight

\* the frontmatter object the staged model aliases follows it
fmAfter(m2) ==
    IF aliased THEN (IF modelRoot = << >> THEN m2 ELSE setAtPath(fm, modelRoot, m2)) ELSE fm

\* doSave without the validation abort
doSaveUnchecked(m) ==
    /\ nPending' = nPending + 1
    /\ UNCHANGED <<status, saveBtnDisabled>>

\* doSave that aborts on invalid paths whatever autosave says
doSaveStrict(m) ==
    LET invalids == collectInvalids(fields, modelRoot, m) IN
    IF Len(invalids) > 0
    THEN /\ status' = StInvalid(Len(invalids))
         /\ UNCHANGED <<nPending, saveBtnDisabled>>
    ELSE /\ nPending' = nPending + 1
         /\ UNCHANGED <<status, saveBtnDisabled>>

\* doSave whose validation abort also disables the Save button
doSaveAbortClears(m) ==
    LET invalids == collectInvalids(fields, modelRoot, m) IN
    IF Len(invalids) > 0 /\ ~autosave
    THEN /\ status' = StInvalid(Len(invalids))
         /\ saveBtnDisabled' = TRUE
         /\ UNCHANGED nPending
    ELSE /\ nPending' = nPending + 1
         /\ UNCHANGED <<status, saveBtnDisabled>>

\* doSave() up to its await, on the staged model m: the validation pass, then
\* either the abort or the call of processFrontMatter
doSave(m) ==
    LET invalids == collectInvalids(fields, modelRoot, m) IN
    IF Len(invalids) > 0 /\ ~autosave
    THEN /\ status' = StInvalid(Len(invalids))
         /\ UNCHANGED <<nPending, saveBtnDisabled>>
    ELSE /\ nPending' = nPending + 1
         /\ UNCHANGED <<status, saveBtnDisabled>>

markDirty ==
    /\ saveBtnDisabled' = FALSE
    /\ status' = StUnsaved
    /\ UNCHANGED nPending

\* autosave ? void doSave() : markDirty(); updateVisibility();
\* with the staged model m2 and the registry nodes2 the handler has produced
\* a form that empties what it hides: the staged value of every top-level field
\* the sweep hides is set to null
RECURSIVE withoutHidden(_, _, _, _)
withoutHidden(m, nodes, sh, n) ==
    IF n = 0 THEN m
    ELSE LET rest == withoutHidden(m, nodes, sh, n - 1) IN
         IF nodes[n].ref[2] = 0 /\ ~sh[n].holder
            /\ nodeField(fields, nodes[n]).type # "repeater"
         THEN setAtPath(rest, nodes[n].bindPath, Null)
         ELSE rest

triggerPostChangeClearing(m2, nodes2) ==
    LET sh == updateVisibility(fields, nodes2, m2, shown)
        m3 == withoutHidden(m2, nodes2, sh, Len(nodes2))
    IN  /\ autosave => inflightRoom
        /\ stagedModel' = m3
        /\ fm' = fmAfter(m3)
        /\ visNodes' = nodes2
        /\ shown' = sh
        /\ IF autosave THEN doSave(m3) ELSE markDirty
        /\ UNCHANGED <<cfg, probe, doc, aliased, nWritten>>

triggerPostChange(m2, nodes2) ==
    /\ autosave => inflightRoom
    /\ stagedModel' = m2
    /\ fm' = fmAfter(m2)
    /\ visNodes' = nodes2
    /\ shown' = updateVisibility(fields, nodes2, m2, shown)
    /\ IF autosave THEN doSave(m2) ELSE markDirty
    /\ UNCHANGED <<cfg, probe, doc, aliased, nWritten>>

-----------------------------------------------------------------------------
(* Control change handlers *)

TextInputs == {<< >>, <<"x">>}
\* texts typed into a csv-number control: valid tokens, and one that is no number
CsvInputs == {<<"1">>, <<"1", ",", "2">>, <<"1", ",", "x">>}

\* the value of a number input: empty once cleared, or the digits typed
NumberInputs == {<< >>, <<"7">>}

\* what the user can put into the control of field f
RawInputs(f) ==
    CASE f.type = "select" -> {Str(f.options[i]) : i \in 1..Len(f.options)}
      [] f.type = "checkbox" -> {Bool(TRUE), Bool(FALSE)}
      [] f.type = "csv-number" -> {Str(t) : t \in CsvInputs}
      [] f.type = "number" -> {Str(t) : t \in NumberInputs}
      [] OTHER -> {Str(t) : t \in TextInputs}

\* const { values, invalid } = parseCsvNumbers(inp.value): the properties
\* "values" and "invalid" of the returned array; reading invalid.length of
\* undefined throws
csvNumberInput(raw) ==
    LET r == parseCsvNumbers(raw.v)
        values == Prop(r, "values")
        invalid == Prop(r, "invalid")
    IN  [value |-> values, threw |-> invalid.t \in {"undefined", "null"}]

\* a listener that stores null for a kind it does not know
storedTopKnownOnly(f, raw) ==
    CASE f.type \in {"textarea", "select", "checkbox"} -> [value |-> raw, threw |-> FALSE]
      [] f.type = "csv-number" -> csvNumberInput(raw)
      [] f.type = "csv-text" -> [value |-> parseCsvText(raw.v), threw |-> FALSE]
      [] f.type \in {"", "text", "number", "date", "time", "datetime-local"} ->
            [value |-> coerceScalar(IF f.type = "" THEN "text" ELSE f.type, raw),
             threw |-> FALSE]
      [] OTHER -> [value |-> Null, threw |-> FALSE]

\* the kind of control renderScalar builds for field f
controlKind(f) ==
    CASE f.type \in {"textarea", "select", "checkbox"} -> f.type
      [] f.type \in {"csv-number", "csv-text"} -> "text"
      [] f.type \in {"date", "time", "datetime-local", "number", "text"} -> f.type
      [] OTHER -> "text"

\* renderScalar: the value the input listener of a top-level control stores
storedTop(f, raw) ==
    CASE f.type \in {"textarea", "select", "checkbox"} -> [value |-> raw, threw |-> FALSE]
      [] f.type = "csv-number" -> csvNumberInput(raw)
      [] f.type = "csv-text" -> [value |-> parseCsvText(raw.v), threw |-> FALSE]
      [] OTHER -> [value |-> coerceScalar(IF f.type = "" THEN "text" ELSE f.type, raw),
                   threw |-> FALSE]

\* renderRepeater: the value the input listener of an item control stores
storedItem(sf, raw) ==
    CASE sf.type \in {"textarea", "select", "checkbox"} -> [value |-> raw, threw |-> FALSE]
      [] sf.type = "number" ->
            LET n == ToNumber(raw) IN [value |-> IF isFinite(n) THEN n ELSE Null, threw |-> FALSE]
      [] sf.type = "csv-number" -> csvNumberInput(raw)
      [] sf.type = "csv-text" -> [value |-> parseCsvText(raw.v), threw |-> FALSE]
      [] OTHER -> [value |-> raw, threw |-> FALSE]

\* a listener that throws after its setAtPath: the model is changed, nothing else runs
handlerThrew(m2) ==
    /\ stagedModel' = m2
    /\ fm' = fmAfter(m2)
    /\ UNCHANGED <<cfg, probe, doc, aliased, saveBtnDisabled, status, visNodes, shown,
                   nPending, nWritten>>

\* input event on the control of top-level scalar field k
ChangeTop(k, raw) ==
    LET f == fields[k]
        bindPath == joinPath(modelRoot, f.path)
        st == storedTop(f, raw)
        m2 == setAtPath(stagedModel, bindPath, st.value)
    IN  /\ f.type # "repeater"
        /\ raw \in RawInputs(f)
        /\ inputs' = [inputs EXCEPT ![k] = raw]
        /\ UNCHANGED <<cards, repOps>>
        /\ IF st.threw THEN handlerThrew(m2)
           ELSE triggerPostChange(m2, visNodes)

\* input event on the control of itemSchema field j in item card idx of repeater k
ChangeItem(k, idx, j, raw) ==
    LET rf == fields[k]
        bindPath == joinPath(modelRoot, rf.path)
        sf == rf.itemSchema[j]
        p == bindPath \o <<IdxKey(idx)>> \o sf.path
        st == storedItem(sf, raw)
        m2 == setAtPath(stagedModel, p, st.value)
    IN  /\ rf.type = "repeater"
        /\ idx < cards[k]
        /\ raw \in RawInputs(sf)
        /\ repOps < opsBound
        /\ repOps' = repOps + 1
        /\ UNCHANGED <<inputs, cards>>
        /\ IF st.threw THEN handlerThrew(m2)
           ELSE triggerPostChange(m2, visNodes)

-----------------------------------------------------------------------------
(* Repeater handlers *)

\* a blank item with the empty string for every field
blankItemAllText(rf) ==
    Obj([key \in {rf.itemSchema[j].path[1] : j \in 1..Len(rf.itemSchema)} |-> Str(<< >>)])

\* the blank item the Add handler builds (blank[sf.path] = ...; item paths of
\* one segment, a later itemSchema entry of the same path overwrites)
blankItem(rf) ==
    Obj([key \in {rf.itemSchema[j].path[1] : j \in 1..Len(rf.itemSchema)} |->
        LET sf == rf.itemSchema[CHOOSE j \in 1..Len(rf.itemSchema) :
                                    rf.itemSchema[j].path[1] = key
                                    /\ \A i \in 1..Len(rf.itemSchema) :
                                          rf.itemSchema[i].path[1] = key => i <= j]
        IN  IF sf.type = "checkbox" THEN Bool(FALSE)
            ELSE IF sf.type \in {"csv-number", "csv-text"} THEN Arr(<< >>)
            ELSE Str(<< >>)])

\* getAtPath(stagedModel, bindPath) ?? []
arrayAt(model, bindPath) == Coalesce(getAtPath(model, bindPath), Arr(<< >>))

\* a2[i] = a2[j]: a copy, not an exchange
swappedCopy(a2, i, j) == PutProp(a2, IdxKey(i), Prop(a2, IdxKey(j)))

\* [a2[i], a2[j]] = [a2[j], a2[i]]
swapped(a2, i, j) == PutProp(PutProp(a2, IdxKey(i), Prop(a2, IdxKey(j))), IdxKey(j), Prop(a2, IdxKey(i)))

\* a2.splice(idx): everything from idx on is removed
splicedFrom(a2, idx) == Arr(SubSeq(a2.v, 1, IF idx < Len(a2.v) THEN idx ELSE Len(a2.v)))

\* a2.splice(idx, 1)
spliced(a2, idx) ==
    Arr([i \in 1..(IF idx < Len(a2.v) THEN Len(a2.v) - 1 ELSE Len(a2.v)) |->
            IF i <= idx THEN a2.v[i] ELSE a2.v[i + 1]])

\* the handler without its refresh(): cards and registry stay as they were
refreshedNoRebuild(k, a2) ==
    LET rf == fields[k]
        bindPath == joinPath(modelRoot, rf.path)
        m2 == setAtPath(stagedModel, bindPath, a2)
    IN  /\ repOps < opsBound
        /\ repOps' = repOps + 1
        /\ UNCHANGED <<inputs, cards>>
        /\ triggerPostChange(m2, visNodes)

\* setAtPath(stagedModel, bindPath, a2); refresh(); updateVisibility()
refreshed(k, a2) ==
    LET rf == fields[k]
        bindPath == joinPath(modelRoot, rf.path)
        m2 == setAtPath(stagedModel, bindPath, a2)
        added == itemNodes(k, rf, bindPath, m2)
    IN  /\ repOps < opsBound
        /\ repOps' = repOps + 1
        /\ cards' = [cards EXCEPT ![k] = Len(itemsAt(m2, bindPath))]
        /\ UNCHANGED inputs
        /\ triggerPostChange(m2, visNodes \o added)

Add(k) ==
    LET rf == fields[k]
        a == arrayAt(stagedModel, joinPath(modelRoot, rf.path))
    IN  /\ rf.type = "repeater"
        /\ a.t = "array"
        /\ refreshed(k, Arr(Append(a.v, blankItem(rf))))

\* a handler that marks the form dirty before it returns
noopDirty ==
    /\ markDirty
    /\ UNCHANGED <<cfg, probe, doc, fm, aliased, stagedModel, visNodes, shown, inputs, cards,
                   nWritten, repOps>>

\* a handler that returns at once: nothing changes
noop ==
    UNCHANGED <<cfg, probe, doc, fm, aliased, stagedModel, saveBtnDisabled, status, visNodes,
                   shown, inputs, cards, nPending, nWritten, repOps>>

Up(k, idx) ==
    LET rf == fields[k]
        a2 == arrayAt(stagedModel, joinPath(modelRoot, rf.path))
    IN  /\ rf.type = "repeater"
        /\ idx < cards[k]
        /\ a2.t = "array"
        /\ IF idx <= 0 THEN noop
           ELSE refreshed(k, swapped(a2, idx - 1, idx))

Down(k, idx) ==
    LET rf == fields[k]
        a2 == arrayAt(stagedModel, joinPath(modelRoot, rf.path))
    IN  /\ rf.type = "repeater"
        /\ idx < cards[k]
        /\ a2.t = "array"
        /\ IF idx >= Len(a2.v) - 1 THEN noop
           ELSE refreshed(k, swapped(a2, idx + 1, idx))

Remove(k, idx) ==
    LET rf == fields[k]
        a2 == arrayAt(stagedModel, joinPath(modelRoot, rf.path))
    IN  /\ rf.type = "repeater"
        /\ idx < cards[k]
        /\ a2.t = "array"
        /\ refreshed(k, spliced(a2, idx))

-----------------------------------------------------------------------------
(* Save *)

\* Object.assign({}, a, b) on two objects
assign(a, b) ==
    [key \in (IF a.t = "object" THEN DOMAIN a.v ELSE {}) \cup
             (IF b.t = "object" THEN DOMAIN b.v ELSE {}) |->
        IF b.t = "object" /\ key \in DOMAIN b.v THEN b.v[key] ELSE a.v[key]]

\* an updater that replaces the object at the root with the staged model
updaterReplace(fmOut, model, root) ==
    IF root = << >> THEN model ELSE setAtPath(fmOut, root, model)

\* the updater doSave hands to processFrontMatter, as the frontmatter it leaves
updater(fmOut, model, root) ==
    IF root = << >>
    THEN Obj(assign(fmOut, model))
    ELSE LET rootObj == Coalesce(getAtPath(fmOut, root), EmptyObj)
             merged == Obj(assign(rootObj, model))
         IN  setAtPath(fmOut, root, merged)

\* saveBtn click (the button is enabled) or save() through the __yamlForm handle
Save(viaApi) ==
    /\ viaApi \/ ~saveBtnDisabled
    /\ inflightRoom
    /\ doSave(stagedModel)
    /\ UNCHANGED <<cfg, probe, doc, fm, aliased, stagedModel, visNodes, shown, inputs, cards,
                   nWritten, repOps>>

\* markDirty() through the __yamlForm handle
ApiMarkDirty ==
    /\ markDirty
    /\ UNCHANGED <<cfg, probe, doc, fm, aliased, stagedModel, visNodes, shown, inputs, cards,
                   nWritten, repOps>>

\* the host runs the updater of one pending save on the live frontmatter and
\* writes the file (atomically); the staged model is read when the updater runs
WriteApply ==
    /\ nPending > 0
    /\ doc' = deepCloneJson(updater(doc, stagedModel, modelRoot))
    /\ nPending' = nPending - 1
    /\ nWritten' = nWritten + 1
    /\ UNCHANGED <<cfg, probe, fm, aliased, stagedModel, saveBtnDisabled, status, visNodes,
                   shown, inputs, cards, repOps>>

\* the host write of one pending save fails: processFrontMatter rejects, the
\* rest of doSave does not run and `void doSave()` drops the rejection
WriteFail ==
    /\ nPending > 0
    /\ nPending' = nPending - 1
    /\ UNCHANGED <<cfg, probe, doc, fm, aliased, stagedModel, saveBtnDisabled, status, visNodes,
                   shown, inputs, cards, nWritten, repOps>>

\* doSave resumes after its await
SaveDone ==
    /\ nWritten > 0
    /\ nWritten' = nWritten - 1
    /\ saveBtnDisabled' = TRUE
    /\ status' = StSaved
    /\ UNCHANGED <<cfg, probe, doc, fm, aliased, stagedModel, visNodes, shown, inputs, cards,
                   nPending, repOps>>

-----------------------------------------------------------------------------
(* The host (or another form on the same note) edits the document *)

\* one edit of keys no schema field is bound to: c exists in every document at
\* render, d in none
hostEdited(d) ==
    setAtPath(setAtPath(d, joinPath(modelRoot, <<"c">>), Num(4)),
              joinPath(modelRoot, <<"d">>), Num(5))

HostEdit ==
    /\ doc' = hostEdited(doc)
    /\ doc' # doc
    /\ UNCHANGED <<cfg, probe, fm, aliased, stagedModel, saveBtnDisabled, status, visNodes,
                   shown, inputs, cards, nPending, nWritten, repOps>>

-----------------------------------------------------------------------------
(* The renders explored *)

Roots == {<< >>, <<"form_data">>}

\* the value of the document's `form` key stands for the schema text
FormKey == "form" :> Obj("fields" :> Str(<<"#">>))

\* the note's frontmatter: the form's data at modelRoot with a key c beside it,
\* and the schema
DocOf(form, root) ==
    LET data == FormData(form) @@ ("c" :> Num(3)) IN
    IF root = << >> THEN Obj(data @@ FormKey)
    ELSE setAtPath(Obj(FormKey), root, Obj(data))

\* (schema autosave, plugin defaultAutosave): manual and autosave forms
AutoModes == {<<Undef, FALSE>>, <<Bool(TRUE), FALSE>>}

Config(form, root, am) ==
    [form |-> form, custom |-> Undef, modelRoot |-> root, autosave |-> am[1],
     defaultAutosave |-> am[2]]

\* the scalar forms under both roots; the repeater form at the document root
Configs ==
    {Config(form, root, am) : form \in {"cond", "req"}, root \in Roots, am \in AutoModes}
    \cup {Config("rep", << >>, am) : am \in AutoModes}

NoProbe == [done |-> FALSE, value |-> Undef]

\* the state render() of form c leaves on the frontmatter d0
Rendered(c, d0) ==
    LET r == render(d0, c) IN
    /\ cfg = c
    /\ doc = d0
    /\ aliased = ~r.fresh
    /\ fm = (IF r.fresh THEN d0
             ELSE IF c.modelRoot = << >> THEN r.model
             ELSE setAtPath(d0, c.modelRoot, r.model))
    /\ stagedModel = r.model
    /\ saveBtnDisabled = TRUE
    /\ status = StReady
    /\ visNodes = r.nodes
    /\ shown = r.shown
    /\ inputs = r.inputs
    /\ cards = r.cards
    /\ nPending = 0
    /\ nWritten = 0
    /\ repOps = 0
    /\ probe = NoProbe

Init == \E c \in Configs : Rendered(c, DocOf(c.form, c.modelRoot))

Next ==
    \/ \E k \in 1..Len(fields) : \E raw \in RawInputs(fields[k]) : ChangeTop(k, raw)
    \/ \E k \in 1..Len(fields) : \E idx \in 0..(cards[k] - 1) :
          \E j \in 1..Len(fields[k].itemSchema) :
             \E raw \in RawInputs(fields[k].itemSchema[j]) : ChangeItem(k, idx, j, raw)
    \/ \E k \in 1..Len(fields) : Add(k)
    \/ \E k \in 1..Len(fields) : \E idx \in 0..(cards[k] - 1) : Up(k, idx)
    \/ \E k \in 1..Len(fields) : \E idx \in 0..(cards[k] - 1) : Down(k, idx)
    \/ \E k \in 1..Len(fields) : \E idx \in 0..(cards[k] - 1) : Remove(k, idx)
    \/ \E viaApi \in BOOLEAN : Save(viaApi)
    \/ ApiMarkDirty
    \/ WriteApply
    \/ WriteFail
    \/ SaveDone
    \/ HostEdit

Spec == Init /\ [][Next]_vars

-----------------------------------------------------------------------------
(* Properties of the form engine, checked under Spec *)

IsCondForm == cfg.form = "cond"
IsReqForm == cfg.form = "req"
IsRepForm == cfg.form = "rep"

\* the index of the top-level scalar fields
ScalarIdx == {k \in 1..Len(fields) : fields[k].type # "repeater"}

\* the value control k showed when render() returned
renderedInput(k) == render(fm, cfg).inputs[k]

\* C1: under modelRoot "form_data", with the README's conditional form and mood
\* = Happy, the comment row is hidden after render, and the change event that
\* sets the mood control to "Sad" makes the comment row (label and holder)
\* visible.
C1_VisibilityReactsUnderModelRoot ==
    [][(/\ IsCondForm
        /\ modelRoot = <<"form_data">>
        /\ stagedModel = render(fm, cfg).model
        /\ ChangeTop(1, Str(sSad)))
       => (/\ ~shown[2].holder
           /\ shown'[2].holder
           /\ shown'[2].label)]_vars

\* C2: when a save's write-through runs, every top-level scalar control the
\* user has changed to a value v has v in the document at join(modelRoot,
\* path), and the object at modelRoot holds no nested copy of modelRoot.
C2_EditThenSaveLandsAtBindPath ==
    [][WriteApply =>
        /\ \A k \in ScalarIdx :
              inputs[k] # renderedInput(k)
              => getAtPath(doc', joinPath(modelRoot, fields[k].path)) = inputs[k]
        /\ modelRoot # << >> => getAtPath(doc', modelRoot \o modelRoot) = Undef]_vars

\* the paths collectInvalids reports on the staged model
invalidNow == collectInvalids(fields, modelRoot, stagedModel)

\* the object the document holds at modelRoot
rootOf(d) == Coalesce(getAtPath(d, modelRoot), EmptyObj)

\* C3: whenever save() runs with autosave off and collectInvalids reports at
\* least one path, the host mutator is not called, the document is unchanged,
\* the status reports the number of invalid paths and the Save button keeps
\* the enabled/disabled state it had.
C3_InvalidBlocksManualSave ==
    [][((\E viaApi \in BOOLEAN : Save(viaApi)) /\ ~autosave /\ Len(invalidNow) > 0)
       => (/\ nPending' = nPending
           /\ nWritten' = nWritten
           /\ doc' = doc
           /\ status' = StInvalid(Len(invalidNow))
           /\ saveBtnDisabled' = saveBtnDisabled)]_vars

\* a manual form whose save was refused: two required fields are empty and
\* shown, the status counts them, the button is still enabled
C3_Witness ==
    /\ IsReqForm
    /\ ~autosave
    /\ Len(invalidNow) = 2
    /\ status = StInvalid(2)
    /\ ~saveBtnDisabled
    /\ nPending = 0
    /\ nWritten = 0
    /\ doc = DocOf(cfg.form, modelRoot)

\* C4: with autosave on and a required shown field left empty, a change event
\* on another field calls the host mutator (a save starts, no abort status),
\* and the write-through of a save leaves every key of the staged model with
\* its staged value in the object at modelRoot.
C4_AutosaveBypassesRequired ==
    [][(autosave /\ Len(invalidNow) > 0)
       => /\ (\E k \in ScalarIdx : \E raw \in RawInputs(fields[k]) :
                 /\ ChangeTop(k, raw)
                 /\ joinPath(modelRoot, fields[k].path) \notin
                       {invalidNow[i] : i \in 1..Len(invalidNow)})
             => (nPending' = nPending + 1 /\ status' = status)
          /\ WriteApply
             => \A key \in DOMAIN stagedModel.v :
                   Prop(rootOf(doc'), key) = stagedModel.v[key]]_vars

\* an autosave form saved with its required title empty: the edit of `kind`
\* is in the document and the status is Saved
C4_Witness ==
    /\ IsReqForm
    /\ autosave
    /\ modelRoot = << >>
    /\ <<"title">> \in {invalidNow[i] : i \in 1..Len(invalidNow)}
    /\ getAtPath(doc, <<"kind">>) = Str(sPost)
    /\ status = StSaved

\* C5: with an empty modelRoot, the write-through of a save leaves every
\* top-level key of the staged model with its staged value in the document,
\* leaves every document key that is not a key of the staged model with the
\* value it had before, and the document has no other key.
C5_EmptyRootPerKeyOverwrite ==
    [][(WriteApply /\ modelRoot = << >>)
       => (/\ DOMAIN doc'.v = DOMAIN doc.v \cup DOMAIN stagedModel.v
           /\ \A key \in DOMAIN stagedModel.v : doc'.v[key] = stagedModel.v[key]
           /\ \A key \in DOMAIN doc.v \ DOMAIN stagedModel.v :
                 doc'.v[key] = doc.v[key])]_vars

\* a save ran over a document holding the key d that the staged model lacks:
\* c is back at its staged value 3 (so the write came after d was added) and d
\* still holds 5
C5_Witness ==
    /\ modelRoot = << >>
    /\ "d" \notin DOMAIN stagedModel.v
    /\ "d" \in DOMAIN doc.v
    /\ doc.v["d"] = Num(5)
    /\ doc.v["c"] = Num(3)

\* the keys of the object at modelRoot that no schema field is bound to
UnboundKeys(d) ==
    {key \in DOMAIN rootOf(d).v :
        \A k \in 1..Len(fields) : joinPath(modelRoot, fields[k].path)[1] # key
                                  /\ fields[k].path[1] # key}

\* C6: the write-through of a save leaves every key of the object at modelRoot
\* that no schema field is bound to with the value the live document held
\* immediately before the save, also when the document was changed after the
\* form was rendered.
C6_UnboundKeysSurviveSave ==
    [][WriteApply
       => \A key \in UnboundKeys(doc) :
             Prop(rootOf(doc'), key) = Prop(rootOf(doc), key)]_vars

\* a control edit or a repeater add / move / remove
Edit ==
    \/ \E k \in 1..Len(fields) : \E raw \in RawInputs(fields[k]) : ChangeTop(k, raw)
    \/ \E k \in 1..Len(fields) : \E idx \in 0..(cards[k] - 1) :
          \E j \in 1..Len(fields[k].itemSchema) :
             \E raw \in RawInputs(fields[k].itemSchema[j]) : ChangeItem(k, idx, j, raw)
    \/ \E k \in 1..Len(fields) : Add(k)
    \/ \E k \in 1..Len(fields) : \E idx \in 0..(cards[k] - 1) :
          Up(k, idx) \/ Down(k, idx) \/ Remove(k, idx)

\* C7: with autosave off, a control edit or a repeater add / move / remove
\* changes neither the live document nor the metadata object read at render;
\* the document changes only in the write-through of a save (or by the host).
C7_StagedModelIsolation ==
    [][~autosave
       => /\ Edit => (doc' = doc /\ fm' = fm)
          /\ doc' # doc => (WriteApply \/ HostEdit)]_vars

\* a manual repeater form after a repeater operation: the staged model has
\* moved away from the rendered one, document and metadata have not
C7_Witness ==
    /\ IsRepForm
    /\ ~autosave
    /\ repOps > 0
    /\ stagedModel # render(doc, cfg).model
    /\ doc = DocOf(cfg.form, modelRoot)
    /\ fm = doc

\* the number of positions of the sequence a holding x
count(a, x) == Cardinality({i \in 1..Len(a) : a[i] = x})

\* b is a with the (0-based) positions i and j exchanged
exchanged(a, b, i, j) ==
    /\ Len(b) = Len(a)
    /\ b[i + 1] = a[j + 1]
    /\ b[j + 1] = a[i + 1]
    /\ \A n \in 1..Len(a) : n \notin {i + 1, j + 1} => b[n] = a[n]
    /\ \A n \in 1..Len(a) : count(b, a[n]) = count(a, a[n])

\* the items of repeater k in the staged model
itemsOf(model, k) == itemsAt(model, joinPath(modelRoot, fields[k].path))

\* C8: move-up on item idx > 0 exchanges the elements idx-1 and idx, move-down
\* on idx < length-1 exchanges idx and idx+1; every other element, the length
\* and the multiset of items are unchanged.  For [A,B,C], move-up on index 1
\* gives [B,A,C], and the value at items.1.name is then A's.
C8_ReorderIsNeighbourSwap ==
    [][\A k \in 1..Len(fields) : \A idx \in 0..(cards[k] - 1) :
          /\ (Up(k, idx) /\ idx > 0)
             => exchanged(itemsOf(stagedModel, k), itemsOf(stagedModel', k), idx - 1, idx)
          /\ (Down(k, idx) /\ idx < Len(itemsOf(stagedModel, k)) - 1)
             => exchanged(itemsOf(stagedModel, k), itemsOf(stagedModel', k), idx, idx + 1)
          /\ (Up(k, idx) /\ idx = 1 /\ IsRepForm
              /\ itemsOf(stagedModel, k) = RepData["items"].v)
             => /\ itemsOf(stagedModel', k) =
                      <<Obj("name" :> Str(<<"B">>)), Obj("name" :> Str(<<"A">>)),
                        Obj("name" :> Str(<<"C">>))>>
                /\ getAtPath(stagedModel', <<"items", "1", "name">>) = Str(<<"A">>)]_vars

\* [A,B,C] after move-up on index 1
C8_Witness ==
    /\ IsRepForm
    /\ repOps = 1
    /\ getAtPath(stagedModel, <<"items", "0", "name">>) = Str(<<"B">>)
    /\ getAtPath(stagedModel, <<"items", "1", "name">>) = Str(<<"A">>)
    /\ getAtPath(stagedModel, <<"items", "2", "name">>) = Str(<<"C">>)
    /\ cards[1] = 3

-----------------------------------------------------------------------------
(* collectInvalids on one required field, over a range of staged values *)

\* a form given by its fields, at the document root, saved by hand
Custom(fs) ==
    [form |-> "custom", custom |-> Arr(fs), modelRoot |-> << >>, autosave |-> Undef,
     defaultAutosave |-> FALSE]

\* the object with the keys of `ks` whose value in `vals` is not undefined
ObjOf(ks, vals) ==
    Obj([key \in {ks[i] : i \in {n \in 1..Len(ks) : vals[n] # Undef}} |->
            vals[CHOOSE n \in 1..Len(ks) : ks[n] = key]])

TitleValues ==
    {Undef, Null, Str(<< >>), Str(<<" ">>), Str(<<"x">>), Arr(<< >>), Num(0), Bool(FALSE)}
KindValues == {Undef, Str(sNote), Str(sPost)}

\* visibleIf of the title: absent, or on `kind`
TitleConds ==
    {NoCond,
     Equals(<<"kind">>, Str(sPost)),
     [NoCond EXCEPT !.some = TRUE, !.path = <<"kind">>, !.notEquals = Str(sPost)],
     [NoCond EXCEPT !.some = TRUE, !.path = <<"kind">>, !.isTruthy = Bool(TRUE)]}

TitleFields(c) == <<Field(<<"title">>, "text", TRUE, c, << >>)>>

InitValidate ==
    \E c \in TitleConds : \E t \in TitleValues : \E kd \in KindValues :
        Rendered(Custom(TitleFields(c)), ObjOf(<<"title", "kind">>, <<t, kd>>))

\* this.collectInvalids(fields, modelRoot, stagedModel), its result kept
Validate ==
    /\ ~probe.done
    /\ probe' = [done |-> TRUE, value |-> collectInvalids(fields, modelRoot, stagedModel)]
    /\ UNCHANGED <<cfg, doc, fm, aliased, stagedModel, saveBtnDisabled, status, visNodes,
                   shown, inputs, cards, nPending, nWritten, repOps>>

NextValidate == Validate

SpecValidate == InitValidate /\ [][NextValidate]_vars

\* C9: for the top-level field {path: "title", required: true}, when the staged
\* title is "" collectInvalids returns exactly ["title"] if the field has no
\* visibleIf or its visibleIf evaluates true, and it returns [] if the
\* visibleIf evaluates false, whatever the staged title is.
C9_RequiredRespectsVisibility ==
    probe.done =>
        LET f == fields[1]
            evaluatesTrue == isVisible(f.visibleIf, stagedModel, << >>)
        IN  /\ (/\ getAtPath(stagedModel, <<"title">>) = Str(<< >>)
                /\ (~f.visibleIf.some \/ evaluatesTrue))
               => probe.value = <<<<"title">>>>
            /\ (f.visibleIf.some /\ ~evaluatesTrue) => probe.value = << >>

\* the title is required, empty and hidden (kind is "note", shown for "post"),
\* and the validation pass has reported nothing
C9_Witness ==
    /\ probe.done
    /\ fields[1].visibleIf = Equals(<<"kind">>, Str(sPost))
    /\ getAtPath(stagedModel, <<"kind">>) = Str(sNote)
    /\ getAtPath(stagedModel, <<"title">>) = Str(<< >>)
    /\ probe.value = << >>

-----------------------------------------------------------------------------
(* isVisible over conditions with any combination of predicate keys *)

PredicateKeys == <<"equals", "notEquals", "contains", "isTruthy", "isFalsy">>

\* the conditions on the key m: each predicate key absent or set
VisibleConds ==
    {[some |-> TRUE, path |-> <<"m">>, equals |-> e, notEquals |-> ne, contains |-> ct,
      isTruthy |-> tr, isFalsy |-> fa] :
        e \in {Undef, Str(sSad)}, ne \in {Undef, Str(sSad)}, ct \in {Undef, Str(<<"a">>)},
        tr \in {Undef, Bool(TRUE), Bool(FALSE)}, fa \in {Undef, Bool(TRUE), Bool(FALSE)}}
    \cup {NoCond}

MValues ==
    {Undef, Null, Str(sSad), Str(<<"b", "A">>), Str(<< >>), Num(0), Num(5), Bool(TRUE)}

NoteFields(c) == <<Field(<<"n">>, "text", FALSE, c, << >>)>>

InitVisible ==
    \E c \in VisibleConds : \E m \in MValues :
        Rendered(Custom(NoteFields(c)), ObjOf(<<"m">>, <<m>>))

\* isVisible(f.visibleIf, stagedModel), its result kept
Evaluate ==
    /\ ~probe.done
    /\ probe' = [done |-> TRUE, value |-> isVisible(fields[1].visibleIf, stagedModel, << >>)]
    /\ UNCHANGED <<cfg, doc, fm, aliased, stagedModel, saveBtnDisabled, status, visNodes,
                   shown, inputs, cards, nPending, nWritten, repOps>>

NextVisible == Evaluate

SpecVisible == InitVisible /\ [][NextVisible]_vars

\* the result of the predicate `key` of condition c on the value val, taken
\* alone; a predicate that has nothing to test leaves the field visible
predicateAlone(key, c, val) ==
    CASE key = "equals" -> StrictEq(val, c.equals)
      [] key = "notEquals" -> ~StrictEq(val, c.notEquals)
      [] key = "contains" ->
            IF val.t = "string"
            THEN includes(toLowerCase(val.v), toLowerCase(toStringChars(c.contains)))
            ELSE TRUE
      [] key = "isTruthy" -> IF Truthy(c.isTruthy) THEN Truthy(val) ELSE TRUE
      [] key = "isFalsy" -> IF Truthy(c.isFalsy) THEN ~Truthy(val) ELSE TRUE

\* the key is set in the condition
present(key, c) == c[key] # Undef

\* the key is set and has something to test: contains needs a string value,
\* isTruthy and isFalsy need a truthy setting
applicable(key, c, val) ==
    CASE key \in {"equals", "notEquals"} -> c[key] # Undef
      [] key = "contains" -> c[key] # Undef /\ val.t = "string"
      [] OTHER -> Truthy(c[key])

\* the result of the first key of PredicateKeys in `chosen`, visible if none
firstOf(chosen, c, val) ==
    IF chosen = {} THEN TRUE
    ELSE LET n == CHOOSE i \in chosen : \A j \in chosen : i <= j
         IN  predicateAlone(PredicateKeys[n], c, val)

condValue == getAtPath(stagedModel, fields[1].visibleIf.path)

\* C10 as stated: the result of isVisible is the result of the first predicate
\* key present in the order equals, notEquals, contains, isTruthy, isFalsy,
\* alone; a later key never influences it; with no key the field is visible.
C10_FirstPresentKeyAlone ==
    (probe.done /\ fields[1].visibleIf.some) =>
        probe.value =
            firstOf({i \in 1..Len(PredicateKeys) :
                        present(PredicateKeys[i], fields[1].visibleIf)},
                    fields[1].visibleIf, condValue)

\* C10 (amended): the result of isVisible is the result of the first predicate
\* key that applies, in the order equals, notEquals, contains, isTruthy,
\* isFalsy: equals and notEquals apply when set, contains when set and the
\* resolved value is a string, isTruthy and isFalsy when set to a truthy value;
\* a key that does not apply is skipped and a later key decides; with no
\* condition or no applying key the field is visible.
C10_FirstApplicableKeyAlone ==
    probe.done =>
        probe.value =
            IF ~fields[1].visibleIf.some THEN TRUE
            ELSE firstOf({i \in 1..Len(PredicateKeys) :
                             applicable(PredicateKeys[i], fields[1].visibleIf, condValue)},
                         fields[1].visibleIf, condValue)

\* contains is set but the value is the number 5, so isFalsy decides: hidden
C10_Witness ==
    /\ probe.done
    /\ fields[1].visibleIf.some
    /\ fields[1].visibleIf.equals = Undef
    /\ fields[1].visibleIf.notEquals = Undef
    /\ fields[1].visibleIf.contains = Str(<<"a">>)
    /\ fields[1].visibleIf.isTruthy = Undef
    /\ fields[1].visibleIf.isFalsy = Bool(TRUE)
    /\ condValue = Num(5)
    /\ probe.value = FALSE

-----------------------------------------------------------------------------
(* The form with csv-number controls *)

InitCsv == \E am \in AutoModes : Rendered(Config("csv", << >>, am), DocOf("csv", << >>))

SpecCsv == InitCsv /\ [][Next]_vars

\* the handler ran to its end: the save was started or the form marked dirty
handlerCompleted ==
    IF autosave THEN nPending' = nPending + 1 ELSE ~saveBtnDisabled'

\* C11: after a change event on a csv-number control (top-level or repeater
\* item) the staged model at the control's bind path is the array of the valid
\* numeric tokens of the text, in order, and the handler completes (the save
\* is started or the form is marked dirty).
C11_CsvNumberKeepsModelTyped ==
    [][/\ \A k \in ScalarIdx : \A raw \in RawInputs(fields[k]) :
             (fields[k].type = "csv-number" /\ ChangeTop(k, raw))
             => /\ getAtPath(stagedModel', joinPath(modelRoot, fields[k].path))
                      = parseCsvNumbers(raw.v)
                /\ handlerCompleted
       /\ \A k \in 1..Len(fields) : \A idx \in 0..(cards[k] - 1) :
             \A j \in 1..Len(fields[k].itemSchema) :
                \A raw \in RawInputs(fields[k].itemSchema[j]) :
                   (fields[k].itemSchema[j].type = "csv-number" /\ ChangeItem(k, idx, j, raw))
                   => /\ getAtPath(stagedModel',
                                   joinPath(modelRoot, fields[k].path) \o <<IdxKey(idx)>>
                                      \o fields[k].itemSchema[j].path)
                            = parseCsvNumbers(raw.v)
                      /\ handlerCompleted]_vars

-----------------------------------------------------------------------------
(* Saving: failure, the dirty flag, writes in flight *)

\* C12: when the host write of a save fails, the Save button is enabled
\* afterwards (a retry is possible) and the status reports it: the status
\* text changes at the failure and does not read "Saved".
C12_WriteFailureRecoverable ==
    [][WriteFail
       => (/\ ~saveBtnDisabled'
           /\ status' # status
           /\ status' # StSaved)]_vars

\* C13: the Save button goes from enabled to disabled only when a save resumes
\* after a host write-through that succeeded; validation aborts, edits,
\* visibility sweeps and repeater operations never disable it.
C13_DirtyClearedOnlyBySuccessfulWrite ==
    [][(~saveBtnDisabled /\ saveBtnDisabled') => SaveDone]_vars

\* a manual form whose control was changed (which enabled the button) and
\* whose button is disabled again after a save
C13_Witness ==
    /\ ~autosave
    /\ IsReqForm
    /\ inputs # render(fm, cfg).inputs
    /\ saveBtnDisabled
    /\ status = StSaved

\* C14: at most one host write-through of the form is in flight at any time:
\* a save invoked while one is in flight does not start a second write.
C14_AtMostOneWriteInFlight == nPending <= 1

\* a change event of a control, or a repeater add, remove or move that is not
\* at the boundary
Change ==
    \/ \E k \in 1..Len(fields) : \E raw \in RawInputs(fields[k]) : ChangeTop(k, raw)
    \/ \E k \in 1..Len(fields) : \E idx \in 0..(cards[k] - 1) :
          \E j \in 1..Len(fields[k].itemSchema) :
             \E raw \in RawInputs(fields[k].itemSchema[j]) : ChangeItem(k, idx, j, raw)
    \/ \E k \in 1..Len(fields) : Add(k)
    \/ \E k \in 1..Len(fields) : \E idx \in 0..(cards[k] - 1) :
          \/ Remove(k, idx)
          \/ (idx > 0 /\ Up(k, idx))
          \/ (idx < Len(itemsOf(stagedModel, k)) - 1 /\ Down(k, idx))

\* C15: with autosave on, every change event of every control kind and every
\* repeater add, move and remove starts a save, and the write-through that
\* leaves no write in flight leaves every key of the staged model with its
\* staged value in the object at modelRoot.
C15_AutosaveWritesEveryChange ==
    [][autosave
       => /\ Change => nPending' = nPending + 1
          /\ (WriteApply /\ nPending' = 0)
             => \A key \in DOMAIN stagedModel.v :
                   Prop(rootOf(doc'), key) = stagedModel.v[key]]_vars

-----------------------------------------------------------------------------
(* setAtPath / getAtPath on a range of objects *)

\* what the object holds at a: nothing, a primitive, or an object with or
\* without b, b being a primitive or an object with or without c
AValues ==
    {Undef, Null, Num(0), Num(1), Str(<< >>), Str(<<"x">>), Bool(FALSE), Bool(TRUE),
     EmptyObj,
     Obj("e" :> Num(3)),
     Obj("b" :> Null),
     Obj("b" :> Num(2)),
     Obj("b" :> Str(<<"x">>)),
     Obj(("b" :> Num(2)) @@ ("e" :> Num(3))),
     Obj("b" :> EmptyObj),
     Obj("b" :> Obj("c" :> Num(1))),
     Obj("b" :> Obj("d" :> Num(2))),
     Obj(("b" :> Obj(("c" :> Num(1)) @@ ("d" :> Num(2)))) @@ ("e" :> Num(3)))}

\* what it holds beside a
ZValues == {Undef, Num(7), Str(<<"x">>), Obj("b" :> Obj("c" :> Num(9)))}

PathABC == <<"a", "b", "c">>

InitPath ==
    \E a \in AValues : \E z \in ZValues :
        Rendered(Custom(<< >>), ObjOf(<<"a", "z">>, <<a, z>>))

\* setAtPath(stagedModel, "a.b.c", 5), its result kept
SetPath ==
    /\ ~probe.done
    /\ probe' = [done |-> TRUE, value |-> setAtPath(stagedModel, PathABC, Num(5))]
    /\ UNCHANGED <<cfg, doc, fm, aliased, stagedModel, saveBtnDisabled, status, visNodes,
                   shown, inputs, cards, nPending, nWritten, repOps>>

NextPath == SetPath

SpecPath == InitPath /\ [][NextPath]_vars

\* the object after agrees with the object before on every key but k, and
\* has k
sameBut(before, after, k) ==
    /\ after.t = "object"
    /\ DOMAIN after.v = DOMAIN before.v \cup {k}
    /\ \A key \in DOMAIN before.v \ {k} : after.v[key] = before.v[key]

\* C16: getAtPath(setAtPath(obj, "a.b.c", 5), "a.b.c") = 5 for any initial
\* object (also {} and one whose value at a is not an object), and setAtPath
\* changes no key outside the chain a, a.b, a.b.c.
C16_PathRoundTrip ==
    probe.done =>
        LET a0 == getAtPath(stagedModel, <<"a">>)
            b0 == getAtPath(stagedModel, <<"a", "b">>)
            a1 == getAtPath(probe.value, <<"a">>)
            b1 == getAtPath(probe.value, <<"a", "b">>)
        IN  /\ getAtPath(probe.value, PathABC) = Num(5)
            /\ sameBut(stagedModel, probe.value, "a")
            /\ sameBut(IF a0.t = "object" THEN a0 ELSE EmptyObj, a1, "b")
            /\ sameBut(IF b0.t = "object" THEN b0 ELSE EmptyObj, b1, "c")

\* the value at a was the number 1, z is kept, and a.b.c reads 5
C16_Witness ==
    /\ probe.done
    /\ getAtPath(stagedModel, <<"a">>) = Num(1)
    /\ getAtPath(stagedModel, <<"z">>) = Num(7)
    /\ getAtPath(probe.value, <<"z">>) = Num(7)
    /\ getAtPath(probe.value, PathABC) = Num(5)

-----------------------------------------------------------------------------
(* toCsvNumbers / parseCsvNumbers on arrays of numbers *)

\* the numbers an array holds, and the longest array
NumPool == {Num(0), Num(1), Num(12), Num(-3)}
MaxCsvLen == 3

RECURSIVE SeqsUpTo(_, _)
\* the sequences over S of length at most n
SeqsUpTo(S, n) ==
    IF n = 0 THEN {<< >>}
    ELSE LET shorter == SeqsUpTo(S, n - 1) IN
         shorter \cup {Append(q, x) : q \in shorter, x \in S}

InitCodec ==
    \E v \in SeqsUpTo(NumPool, MaxCsvLen) :
        Rendered(Custom(<< >>), Obj("nums" :> Arr(v)))

\* parseCsvNumbers(toCsvNumbers(stagedModel.nums)), its result kept
Codec ==
    /\ ~probe.done
    /\ probe' = [done |-> TRUE,
                 value |-> parseCsvNumbers(toCsvNumbers(getAtPath(stagedModel, <<"nums">>)))]
    /\ UNCHANGED <<cfg, doc, fm, aliased, stagedModel, saveBtnDisabled, status, visNodes,
                   shown, inputs, cards, nPending, nWritten, repOps>>

NextCodec == Codec

SpecCodec == InitCodec /\ [][NextCodec]_vars

\* C17: for every array v of finite numbers the result of
\* parseCsvNumbers(toCsvNumbers(v)) has a values component equal to v and an
\* empty invalid component.
C17_CsvNumberCodecRoundTrip ==
    probe.done =>
        /\ Prop(probe.value, "values") = getAtPath(stagedModel, <<"nums">>)
        /\ Prop(probe.value, "invalid") = Arr(<< >>)

\* what parseCsvNumbers gives back: the array v itself
CodecReturnsArray == probe.done => probe.value = getAtPath(stagedModel, <<"nums">>)

-----------------------------------------------------------------------------
(* Schemas with a malformed `fields` entry or fields of unknown kinds *)

KnownKinds ==
    {"text", "number", "date", "time", "datetime-local", "checkbox", "select",
     "textarea", "csv-number", "csv-text", "repeater"}

\* the `fields` entry of the schema: absent, not an array, or an array of
\* fields whose kind is absent or unknown
LenientFieldsValues ==
    {Undef, Null, Str(<<"x">>), Num(3), EmptyObj, Arr(<< >>),
     Arr(<<Field(<<"x">>, "color", FALSE, NoCond, << >>)>>),
     Arr(<<Field(<<"x">>, "", FALSE, NoCond, << >>),
           Field(<<"y">>, "slider", TRUE, NoCond, << >>)>>)}

InitLenient ==
    \E fs \in LenientFieldsValues : \E am \in AutoModes : \E x \in {Undef, Str(<<"o">>)} :
        Rendered([form |-> "custom", custom |-> fs, modelRoot |-> << >>,
                  autosave |-> am[1], defaultAutosave |-> am[2]],
                 ObjOf(<<"x", "c">>, <<x, Num(3)>>))

NextLenient ==
    \/ \E k \in 1..Len(fields) : \E raw \in RawInputs(fields[k]) : ChangeTop(k, raw)
    \/ \E viaApi \in BOOLEAN : Save(viaApi)
    \/ ApiMarkDirty
    \/ WriteApply
    \/ WriteFail
    \/ SaveDone
    \/ HostEdit

SpecLenient == InitLenient /\ [][NextLenient]_vars

\* what render() leaves for a lenient schema: nothing for a fields entry that
\* is no array, a text control for a field of unknown kind
lenientRender ==
    /\ (cfg.form = "custom" /\ cfg.custom.t # "array")
       => (fields = << >> /\ visNodes = << >> /\ inputs = << >> /\ cards = << >>)
    /\ \A k \in 1..Len(fields) :
          fields[k].type \notin KnownKinds
          => (controlKind(fields[k]) = "text" /\ inputs[k].t = "string")

\* C18: a schema whose fields entry is missing or not an array gives an empty
\* form (no row, no control, no card), and a field whose kind is not one of
\* the known kinds gets a text control whose change event stores the raw
\* string at its bind path.
C18_SchemaLeniency ==
    [][/\ lenientRender
       /\ lenientRender'
       /\ \A k \in 1..Len(fields) : \A raw \in RawInputs(fields[k]) :
             (fields[k].type \notin KnownKinds /\ fields[k].type # "" /\ ChangeTop(k, raw))
             => (/\ raw.t = "string"
                 /\ getAtPath(stagedModel', joinPath(modelRoot, fields[k].path)) = raw)]_vars

\* the control of a field of kind "slider" was changed and the model holds the
\* raw string
C18_Witness ==
    /\ cfg.form = "custom"
    /\ Len(fields) = 2
    /\ fields[2].type = "slider"
    /\ inputs[2] = Str(<<"x">>)
    /\ getAtPath(stagedModel, <<"y">>) = Str(<<"x">>)

-----------------------------------------------------------------------------
(* main.ts: the code-block processor and the mount element *)

\* a repeater field whose schema has no itemSchema key
RepeaterNoItemSchema(path) ==
    [path |-> path, type |-> "repeater", required |-> FALSE, visibleIf |-> NoCond,
     options |-> << >>]

\* render() throws while laying out the fields: refresh() calls
\* rf.itemSchema.forEach for each existing item, a TypeError when the repeater
\* has items and no itemSchema
renderThrows(fmv, c) ==
    LET model == deepClone(Coalesce(getAtPath(fmv, c.modelRoot), EmptyObj)).val
        fs == FieldsOf(c)
    IN  \E k \in 1..Len(fs) :
            /\ fs[k].type = "repeater"
            /\ "itemSchema" \notin DOMAIN fs[k]
            /\ itemsAt(model, joinPath(c.modelRoot, fs[k].path)) # << >>

\* the children of the mount element el once the processor callback has
\* settled, from its children before: rootEl.createEl appends the wrap at
\* once; a completed render empties el and mounts the wrap; the catch block
\* appends the <pre> diagnostic
processor(children, fmv, c) ==
    LET withWrap == Append(children, "wrap") IN
    IF renderThrows(fmv, c)
    THEN [before |-> children, threw |-> TRUE, escaped |-> FALSE,
          children |-> Append(withWrap, "pre")]
    ELSE [before |-> children, threw |-> FALSE, escaped |-> FALSE,
          children |-> <<"wrap">>]

\* schemas: an optional text field, then a repeater with or without itemSchema
MountFields ==
    {pre \o <<rp>> :
        pre \in {<< >>, <<Field(<<"note">>, "text", FALSE, NoCond, << >>)>>},
        rp \in {Repeater(<<"items">>, NoCond, <<Field(<<"name">>, "text", FALSE, NoCond, << >>)>>),
                RepeaterNoItemSchema(<<"items">>)}}

\* what the frontmatter holds at items
MountItems ==
    {Undef, Arr(<< >>), Arr(<<Obj("name" :> Str(<<"A">>))>>),
     Arr(<<Obj("name" :> Str(<<"A">>)), Obj("name" :> Str(<<"B">>))>>)}

\* the processor has been called and render() has not run yet
InitMount ==
    \E fs \in MountFields : \E items \in MountItems : \E am \in AutoModes :
      \E old \in {<< >>, <<"old">>} :
        /\ cfg = [form |-> "custom", custom |-> Arr(fs), modelRoot |-> << >>,
                  autosave |-> am[1], defaultAutosave |-> am[2]]
        /\ doc = ObjOf(<<"items">>, <<items>>)
        /\ fm = doc
        /\ aliased = FALSE
        /\ stagedModel = EmptyObj
        /\ saveBtnDisabled = TRUE
        /\ status = StReady
        /\ visNodes = << >>
        /\ shown = << >>
        /\ inputs = << >>
        /\ cards = << >>
        /\ nPending = 0
        /\ nWritten = 0
        /\ repOps = 0
        /\ probe = [done |-> FALSE, value |-> [before |-> old]]

\* the processor callback runs to its end
Process ==
    /\ ~probe.done
    /\ probe' = [done |-> TRUE, value |-> processor(probe.value.before, fm, cfg)]
    /\ UNCHANGED <<cfg, doc, fm, aliased, stagedModel, saveBtnDisabled, status, visNodes,
                   shown, inputs, cards, nPending, nWritten, repOps>>

NextMount == Process

SpecMount == InitMount /\ [][NextMount]_vars

\* C19: when render throws while building the form, the exception does not
\* escape the processor and the mount element shows the diagnostic in place
\* of the form: no partially built form remains mounted next to it.
C19_RenderFailureContained ==
    (probe.done /\ probe.value.threw)
    => (/\ ~probe.value.escaped
        /\ \E i \in 1..Len(probe.value.children) : probe.value.children[i] = "pre"
        /\ \A i \in 1..Len(probe.value.children) : probe.value.children[i] # "wrap")

-----------------------------------------------------------------------------
(* Autosave mode: the schema's value and the plugin setting *)

\* what the schema holds at form.autosave
SchemaAutosaveValues == {Undef, Bool(TRUE), Bool(FALSE)}

\* this.plugin.settings.defaultAutosave as it is now: the value render() read
\* until the settings toggle is used, the toggled value afterwards
defaultAutosaveNow == IF probe.done THEN probe.value.v ELSE cfg.defaultAutosave

InitMode ==
    \E form \in {"cond", "req"} : \E a \in SchemaAutosaveValues : \E d \in BOOLEAN :
        Rendered(Config(form, << >>, <<a, d>>), DocOf(form, << >>))

\* the toggle of the settings tab: settings.defaultAutosave = v
ToggleSetting ==
    /\ probe' = [done |-> TRUE, value |-> Bool(~defaultAutosaveNow)]
    /\ UNCHANGED <<cfg, doc, fm, aliased, stagedModel, saveBtnDisabled, status, visNodes,
                   shown, inputs, cards, nPending, nWritten, repOps>>

NextMode ==
    \/ \E k \in 1..Len(fields) : \E raw \in RawInputs(fields[k]) : ChangeTop(k, raw)
    \/ \E viaApi \in BOOLEAN : Save(viaApi)
    \/ ApiMarkDirty
    \/ WriteApply
    \/ WriteFail
    \/ SaveDone
    \/ ToggleSetting

SpecMode == InitMode /\ [][NextMode]_vars

\* the mode the schema and the setting read by render() call for
modeAtRender ==
    IF cfg.autosave.t = "boolean" THEN cfg.autosave.v ELSE cfg.defaultAutosave

\* C20: a form is in the mode of the schema's autosave value when the schema
\* has one, true or false, and in the mode of defaultAutosave as render() read
\* it otherwise; every change event of the render acts in that mode (a save
\* is started, or the form is only marked dirty), whatever the setting has
\* become since.
C20_AutosaveModeSelection ==
    [][/\ cfg' = cfg
       /\ Change => IF modeAtRender
                    THEN nPending' = nPending + 1
                    ELSE /\ nPending' = nPending
                         /\ ~saveBtnDisabled'
                         /\ status' = StUnsaved]_vars

\* the schema says false, the setting was true at render and has been toggled
\* since; a control was changed and nothing was saved
C20_Witness ==
    /\ cfg.autosave = Bool(FALSE)
    /\ cfg.defaultAutosave
    /\ probe.done
    /\ ~defaultAutosaveNow
    /\ stagedModel # deepClone(Coalesce(getAtPath(doc, modelRoot), EmptyObj)).val
    /\ ~saveBtnDisabled
    /\ status = StUnsaved
    /\ nPending = 0
    /\ nWritten = 0

-----------------------------------------------------------------------------
(* The visibility sweep over a form with dependent rows and item cells *)

IsFalsy(path) == [NoCond EXCEPT !.some = TRUE, !.path = path, !.isFalsy = Bool(TRUE)]
IsTruthy(path) == [NoCond EXCEPT !.some = TRUE, !.path = path, !.isTruthy = Bool(TRUE)]

\* a list of numbers, a row shown while the list is missing, and a repeater
\* whose items show their detail cell while their checkbox is set
SweepFields ==
    <<Field(<<"nums">>, "csv-number", FALSE, NoCond, << >>),
      Field(<<"extra">>, "text", FALSE, IsFalsy(<<"nums">>), << >>),
      Repeater(<<"items">>, NoCond,
               <<Field(<<"on">>, "checkbox", FALSE, NoCond, << >>),
                 Field(<<"detail">>, "text", FALSE, IsTruthy(<<"on">>), << >>)>>)>>

SweepItems ==
    {<< >>, <<Obj("on" :> Bool(TRUE)), Obj("on" :> Bool(FALSE))>>}

\* the note has no nums key yet
InitSweep ==
    \E items \in SweepItems : \E am \in AutoModes :
        Rendered([form |-> "custom", custom |-> Arr(SweepFields), modelRoot |-> << >>,
                  autosave |-> am[1], defaultAutosave |-> am[2]],
                 ObjOf(<<"items">>, <<Arr(items)>>))

SpecSweep == InitSweep /\ [][Next]_vars

\* node i of the registry belongs to an element that is in the document: a
\* top-level row, or a cell of one of the cards the last refresh() of its
\* repeater built (the last cards[k] * Len(itemSchema) nodes of repeater k)
mounted(i) ==
    LET k == visNodes[i].ref[1] IN
    \/ visNodes[i].ref[2] = 0
    \/ Cardinality({n \in (i + 1)..Len(visNodes) :
                       visNodes[n].ref[1] = k /\ visNodes[n].ref[2] > 0})
          < cards[k] * Len(fields[k].itemSchema)

\* C21: after render and after every handler, every mounted row and item cell
\* is shown iff isVisible holds of its field's visibleIf on the staged model
\* (item cells relative to their item), and the label of a top-level row is
\* shown iff its holder is.
C21_VisibilityConsistent ==
    \A i \in 1..Len(visNodes) :
        mounted(i)
        => /\ shown[i].holder
                = isVisible(nodeField(fields, visNodes[i]).visibleIf, stagedModel,
                            visNodes[i].itemBase)
           /\ visNodes[i].hasLabel => shown[i].label = shown[i].holder

-----------------------------------------------------------------------------
(* What the controls show and what the staged model holds *)

\* a select, a number input and a checkbox
AgreeFields ==
    <<Field(<<"kind">>, "select", FALSE, NoCond, <<sNote, sPost>>),
      Field(<<"n">>, "number", FALSE, NoCond, << >>),
      Field(<<"done">>, "checkbox", FALSE, NoCond, << >>)>>

\* the note's kind: missing, one of the options, or a value that is no option
AgreeKinds == {Undef, Str(sPost), Str(<<"m", "e", "m", "o">>)}

InitAgree ==
    \E kind \in AgreeKinds : \E n \in {Undef, Num(3)} : \E am \in AutoModes :
        Rendered([form |-> "custom", custom |-> Arr(AgreeFields), modelRoot |-> << >>,
                  autosave |-> am[1], defaultAutosave |-> am[2]],
                 ObjOf(<<"kind", "n", "done">>, <<kind, n, Bool(TRUE)>>))

SpecAgree == InitAgree /\ [][NextLenient]_vars

\* the control of field f shows the model value v: a select has the option
\* String(v) selected, a checkbox is checked iff v is truthy, a CSV input
\* parses to v, any other input holds String(v ?? "")
agrees(f, control, v) ==
    CASE f.type = "select" -> control = Str(toStringChars(v))
      [] f.type = "checkbox" -> control = Bool(Truthy(v))
      [] f.type = "csv-number" -> parseCsvNumbers(control.v) = v
      [] f.type = "csv-text" -> parseCsvText(control.v) = v
      [] OTHER -> control = Str(toStringChars(Coalesce(v, Str(<< >>))))

\* C22: at render and after every edit the value each mounted top-level
\* control shows is the staged model's value at the control's bind path; so
\* too for a select whose current value is none of its options and for a
\* number input that has been cleared.
C22_ControlsShowModel ==
    \A k \in ScalarIdx :
        agrees(fields[k], inputs[k],
               getAtPath(stagedModel, joinPath(modelRoot, fields[k].path)))

\* the same with every select showing its model value at render
C22_FromAgreeingRender ==
    [][C22_ControlsShowModel => C22_ControlsShowModel']_vars

-----------------------------------------------------------------------------
(* Sequences of repeater events *)

\* the items the note holds at render
SeqItems ==
    {<<Obj("name" :> Str(<<"A">>)), Obj("name" :> Str(<<"B">>))>>,
     <<Obj("name" :> Str(<<"A">>)), Obj("name" :> Str(<<"B">>)),
       Obj("name" :> Str(<<"C">>))>>}

InitSeq ==
    \E items \in SeqItems : \E am \in AutoModes :
        Rendered(Config("seq", << >>, am), ObjOf(<<"items">>, <<Arr(items)>>))

\* item edits, add, move and remove; saves started by autosave stay in flight
NextSeq ==
    \/ \E k \in 1..Len(fields) : \E idx \in 0..(cards[k] - 1) :
          \E j \in 1..Len(fields[k].itemSchema) :
             \E raw \in RawInputs(fields[k].itemSchema[j]) : ChangeItem(k, idx, j, raw)
    \/ \E k \in 1..Len(fields) : Add(k)
    \/ \E k \in 1..Len(fields) : \E idx \in 0..(cards[k] - 1) : Up(k, idx)
    \/ \E k \in 1..Len(fields) : \E idx \in 0..(cards[k] - 1) : Down(k, idx)
    \/ \E k \in 1..Len(fields) : \E idx \in 0..(cards[k] - 1) : Remove(k, idx)

SpecSeq == InitSeq /\ [][NextSeq]_vars

\* the registry nodes of the item cells of repeater k, oldest first
cellNodes(k) == SelectSeq(visNodes, LAMBDA nd : nd.ref[1] = k /\ nd.ref[2] > 0)

\* the cells of the cards refresh() built last, card by card
mountedCells(k) ==
    LET all == cellNodes(k)
        n == cards[k] * Len(fields[k].itemSchema)
    IN  SubSeq(all, Len(all) - n + 1, Len(all))

\* every repeater has one card per array element, and the controls of card i
\* are bound to repeaterPath.i.field
boundByPosition ==
    \A k \in 1..Len(fields) :
        fields[k].type = "repeater"
        => LET bindPath == joinPath(modelRoot, fields[k].path)
               F == Len(fields[k].itemSchema)
           IN  /\ cards[k] = Len(itemsAt(stagedModel, bindPath))
               /\ Len(cellNodes(k)) >= cards[k] * F
               /\ \A i \in 0..(cards[k] - 1) : \A j \in 1..F :
                     LET nd == mountedCells(k)[i * F + j] IN
                     /\ nd.ref = <<k, j>>
                     /\ nd.itemBase = bindPath \o <<IdxKey(i)>>
                     /\ nd.bindPath = bindPath \o <<IdxKey(i)>> \o fields[k].itemSchema[j].path

\* C23: in every state of a sequence of add, move-up, move-down and remove
\* (and item edits) the number of mounted item cards is the array length and
\* card i is bound to repeaterPath.i.field; an edit in card idx changes the
\* element now at index idx and no other, and remove on card idx removes the
\* element now at index idx.
C23_PositionalBinding ==
    [][/\ boundByPosition
       /\ boundByPosition'
       /\ \A k \in 1..Len(fields) : \A idx \in 0..(cards[k] - 1) :
             LET a == itemsOf(stagedModel, k)
                 b == itemsOf(stagedModel', k)
             IN  /\ \A j \in 1..Len(fields[k].itemSchema) :
                       \A raw \in RawInputs(fields[k].itemSchema[j]) :
                          ChangeItem(k, idx, j, raw)
                          => /\ Len(b) = Len(a)
                             /\ \A i \in 1..Len(a) : i # idx + 1 => b[i] = a[i]
                             /\ getAtPath(b[idx + 1], fields[k].itemSchema[j].path) = raw
                 /\ Remove(k, idx)
                    => /\ Len(b) = Len(a) - 1
                       /\ \A i \in 1..Len(b) : b[i] = IF i <= idx THEN a[i] ELSE a[i + 1]]_vars

\* after three events: B was removed from A, B, C, the new second item was
\* renamed and moved up
C23_Witness ==
    /\ cfg.form = "seq"
    /\ repOps = 3
    /\ cards[1] = 2
    /\ itemsOf(stagedModel, 1) = <<Obj("name" :> Str(<<"x">>)), Obj("name" :> Str(<<"A">>))>>

-----------------------------------------------------------------------------
(* Add over item schemas of every kind *)

ItemKinds ==
    {"checkbox", "csv-number", "csv-text", "text", "number", "select", "textarea", "date", ""}

\* item schemas of up to two fields, a then b
AddSchemas ==
    {<< >>}
    \cup {<<Field(<<"a">>, ka, FALSE, NoCond, << >>)>> : ka \in ItemKinds}
    \cup {<<Field(<<"a">>, ka, FALSE, NoCond, << >>), Field(<<"b">>, kb, FALSE, NoCond, << >>)>> :
            ka \in ItemKinds, kb \in ItemKinds}

\* what the note holds at items: nothing, or an array of up to two items
AddItems ==
    {Undef, Arr(<< >>), Arr(<<Obj("a" :> Str(<<"A">>))>>),
     Arr(<<Obj("a" :> Str(<<"A">>)), Obj("b" :> Num(1))>>)}

InitAdd ==
    \E schema \in AddSchemas : \E items \in AddItems : \E am \in AutoModes :
        Rendered([form |-> "custom", custom |-> Arr(<<Repeater(<<"items">>, NoCond, schema)>>),
                  modelRoot |-> << >>, autosave |-> am[1], defaultAutosave |-> am[2]],
                 ObjOf(<<"items">>, <<items>>))

NextAdd == \E k \in 1..Len(fields) : Add(k)

SpecAdd == InitAdd /\ [][NextAdd]_vars

\* the value Add puts under an item field of kind `type`
blankOf(type) ==
    IF type = "checkbox" THEN Bool(FALSE)
    ELSE IF type \in {"csv-number", "csv-text"} THEN Arr(<< >>)
    ELSE Str(<< >>)

\* C24: Add makes the array one longer, leaves the items it had in place and
\* in order, and the new last item has exactly one key per itemSchema field:
\* false for a checkbox, an empty array for csv-number and csv-text, the empty
\* string for every other kind.
C24_AddAppendsBlank ==
    [][\A k \in 1..Len(fields) :
          Add(k)
          => LET a == itemsOf(stagedModel, k)
                 b == itemsOf(stagedModel', k)
                 schema == fields[k].itemSchema
             IN  /\ Len(b) = Len(a) + 1
                 /\ \A i \in 1..Len(a) : b[i] = a[i]
                 /\ b[Len(b)].t = "object"
                 /\ DOMAIN b[Len(b)].v = {schema[j].path[1] : j \in 1..Len(schema)}
                 /\ \A j \in 1..Len(schema) :
                       b[Len(b)].v[schema[j].path[1]] = blankOf(schema[j].type)]_vars

\* a third item was added, blank for a checkbox and a list of numbers
C24_Witness ==
    /\ cfg.form = "custom"
    /\ Len(fields) = 1
    /\ fields[1].type = "repeater"
    /\ Len(fields[1].itemSchema) = 2
    /\ fields[1].itemSchema[1].type = "checkbox"
    /\ fields[1].itemSchema[2].type = "csv-number"
    /\ repOps = 1
    /\ cards[1] = 3
    /\ itemsOf(stagedModel, 1)[3] = Obj(("a" :> Bool(FALSE)) @@ ("b" :> Arr(<< >>)))

\* C25: remove on item card idx leaves the array without the element that was
\* at idx, the others in their order, one shorter; the staged model then still
\* holds an array at the repeater's path, the empty array after the last item
\* was removed.
C25_RemoveDeletesClicked ==
    [][\A k \in 1..Len(fields) : \A idx \in 0..(cards[k] - 1) :
          Remove(k, idx)
          => LET a == itemsOf(stagedModel, k)
                 at == getAtPath(stagedModel', joinPath(modelRoot, fields[k].path))
             IN  /\ at.t = "array"
                 /\ Len(at.v) = Len(a) - 1
                 /\ \A i \in 1..idx : at.v[i] = a[i]
                 /\ \A i \in (idx + 1)..Len(at.v) : at.v[i] = a[i + 1]
                 /\ Len(a) = 1 => at = Arr(<< >>)]_vars

\* A, B and C were removed one after the other: the empty array is left
C25_Witness ==
    /\ cfg.form = "seq"
    /\ repOps = 3
    /\ cards[1] = 0
    /\ "items" \in DOMAIN stagedModel.v
    /\ stagedModel.v["items"] = Arr(<< >>)

\* C26: move-up on the first item and move-down on the last item leave the
\* staged model, the dirty flag, the status and the document as they are and
\* start no save, with autosave on or off; card count and registry stay too.
C26_BoundaryMovesChangeNothing ==
    [][\A k \in 1..Len(fields) :
          (cards[k] > 0 /\ (Up(k, 0) \/ Down(k, Len(itemsOf(stagedModel, k)) - 1)))
          => /\ stagedModel' = stagedModel
             /\ saveBtnDisabled' = saveBtnDisabled
             /\ status' = status
             /\ doc' = doc
             /\ nPending' = nPending
             /\ cards' = cards
             /\ visNodes' = visNodes]_vars

\* an autosave form with two cards or more, one save in flight and room for
\* another event: move-up on the first card and move-down on the last can be
\* clicked and would start a second save if they did anything
C26_Witness ==
    /\ cfg.form = "seq"
    /\ autosave
    /\ cards[1] >= 2
    /\ cards[1] = Len(itemsOf(stagedModel, 1))
    /\ nPending = 1
    /\ repOps < opsBound

-----------------------------------------------------------------------------
(* collectInvalids over schemas with repeated fields and paths *)

\* a required title, a note, a repeater of items with two required fields, and
\* a required top-level field bound to the first item's name
ShapePool ==
    {Field(<<"title">>, "text", TRUE, NoCond, << >>),
     Field(<<"note">>, "text", FALSE, NoCond, << >>),
     Repeater(<<"items">>, NoCond,
              <<Field(<<"name">>, "text", TRUE, NoCond, << >>),
                Field(<<"tag">>, "text", TRUE, NoCond, << >>)>>),
     Field(<<"items", "0", "name">>, "text", TRUE, NoCond, << >>)}

MaxShapeLen == 3

\* schemas of one to MaxShapeLen fields of the pool, the same field more than
\* once included
ShapeSchemas == UNION {[1..n -> ShapePool] : n \in 1..MaxShapeLen}

BlankPair == Obj(("name" :> Str(<< >>)) @@ ("tag" :> Str(<< >>)))

ShapeItems ==
    {Arr(<< >>),
     Arr(<<BlankPair, Obj(("name" :> Str(<<"A">>)) @@ ("tag" :> Str(<< >>)))>>),
     Arr(<<BlankPair, BlankPair>>)}

InitShape ==
    \E fs \in ShapeSchemas : \E t \in {Str(<< >>), Str(<<"x">>)} : \E items \in ShapeItems :
        Rendered(Custom(fs), ObjOf(<<"title", "items">>, <<t, items>>))

SpecShape == InitShape /\ [][NextValidate]_vars

\* the absolute paths the validation pass looks at, in the order of the
\* schema, and for a repeater item by item and, within an item, in the order
\* of itemSchema
sites ==
    Flatten([k \in 1..Len(fields) |->
        LET bindPath == joinPath(modelRoot, fields[k].path) IN
        IF fields[k].type = "repeater"
        THEN Flatten([i \in 1..Len(itemsAt(stagedModel, bindPath)) |->
                [j \in 1..Len(fields[k].itemSchema) |->
                    bindPath \o <<IdxKey(i - 1)>> \o fields[k].itemSchema[j].path]])
        ELSE <<bindPath>>])

RECURSIVE isSubsequence(_, _)
\* r is s with some entries left out
isSubsequence(r, s) ==
    IF r = << >> THEN TRUE
    ELSE IF s = << >> THEN FALSE
    ELSE IF Head(r) = Head(s) THEN isSubsequence(Tail(r), Tail(s))
    ELSE isSubsequence(r, Tail(s))

noDuplicates(q) == \A i, j \in 1..Len(q) : q[i] = q[j] => i = j

\* every returned path is one the pass looked at, in that order, and its value
\* is empty
inSchemaOrder(result) ==
    /\ isSubsequence(result, sites)
    /\ \A n \in 1..Len(result) : isEmptyValue(getAtPath(stagedModel, result[n]))

\* C27 as stated: collectInvalids returns the absolute paths of the unmet
\* required fields in schema order (within a repeater in array order, then
\* itemSchema order) and never the same path twice, for every schema and
\* staged model.
C27_InvalidsOrderedNoDuplicates ==
    probe.done => (inSchemaOrder(probe.value) /\ noDuplicates(probe.value))

\* C27 amended: the paths come in schema order (array order, then itemSchema
\* order), one per unmet field, and no path comes twice when no two validated
\* fields have the same absolute path.
C27_InvalidsOrderedOnePerField ==
    probe.done
    => /\ inSchemaOrder(probe.value)
       /\ Len(probe.value) <= Len(sites)
       /\ noDuplicates(sites) => noDuplicates(probe.value)

\* the title and three item fields are unmet and reported in order
C27_Witness ==
    /\ probe.done
    /\ Len(fields) = 2
    /\ noDuplicates(sites)
    /\ probe.value = <<<<"title">>, <<"items", "0", "name">>, <<"items", "0", "tag">>,
                       <<"items", "1", "tag">>>>

-----------------------------------------------------------------------------
(* Validation of a repeater that has a visibleIf of its own *)

\* a kind, and a list of named items shown for posts only
HiddenFields ==
    <<Field(<<"kind">>, "select", FALSE, NoCond, <<sNote, sPost>>),
      Repeater(<<"items">>, Equals(<<"kind">>, Str(sPost)),
               <<Field(<<"name">>, "text", TRUE, NoCond, << >>)>>)>>

HiddenItems ==
    {<< >>, <<Obj("name" :> Str(<<"A">>))>>,
     <<Obj("name" :> Str(<<"A">>)), Obj("name" :> Str(<< >>))>>}

InitHidden ==
    \E kind \in {Str(sNote), Str(sPost)} : \E items \in HiddenItems : \E am \in AutoModes :
        Rendered([form |-> "custom", custom |-> Arr(HiddenFields), modelRoot |-> << >>,
                  autosave |-> am[1], defaultAutosave |-> am[2]],
                 ObjOf(<<"kind", "items">>, <<kind, Arr(items)>>))

SpecHidden == InitHidden /\ [][Next]_vars

\* the control bound to path p is on screen: a mounted node with that bind
\* path is shown, and for an item cell the row of its repeater is shown too
pathShown(p) ==
    \E i \in 1..Len(visNodes) :
        /\ mounted(i)
        /\ visNodes[i].bindPath = p
        /\ shown[i].holder
        /\ visNodes[i].ref[2] > 0
           => \E r \in 1..Len(visNodes) :
                 /\ visNodes[r].ref = <<visNodes[i].ref[1], 0>>
                 /\ shown[r].holder

\* C28: every path collectInvalids returns on the staged model belongs to a
\* field the visibility sweep shows; the item fields of a repeater whose own
\* visibleIf evaluates false are not returned.
C28_InvalidsAreShown ==
    \A n \in 1..Len(invalidNow) : pathShown(invalidNow[n])

-----------------------------------------------------------------------------
(* Edits made while a save is in flight *)

\* the first segments of the bind paths: the keys of the staged model the
\* controls write under
boundKeys == {joinPath(modelRoot, fields[k].path)[1] : k \in 1..Len(fields)}

\* what the controls have put into the staged model is in the document
editsWritten ==
    \A key \in boundKeys : Prop(rootOf(doc), key) = Prop(stagedModel, key)

\* C29: with autosave off, whenever the Save button is disabled and no write
\* is in flight, every edit made since render is in the document: an edit made
\* while a save's write is in flight is part of that write or leaves the form
\* dirty once the save has completed.
C29_CleanMeansWritten ==
    (~autosave /\ saveBtnDisabled /\ nPending = 0 /\ nWritten = 0) => editsWritten

-----------------------------------------------------------------------------
(* The size of the visibility registry *)

RECURSIVE cellCount(_)
\* the item cells mounted in the repeaters 1..k: one per existing item and
\* itemSchema field
cellCount(k) ==
    IF k = 0 THEN 0
    ELSE cellCount(k - 1)
         + (IF fields[k].type = "repeater"
            THEN Len(itemsOf(stagedModel, k)) * Len(fields[k].itemSchema)
            ELSE 0)

\* C30: after any sequence of repeater add, move and remove events the
\* registry holds exactly one node per top-level field and one per (existing
\* item, itemSchema field) pair: every node is mounted, and the nodes of
\* torn-down item cards are gone.
C30_RegistryTracksMounted ==
    /\ Len(visNodes) = Len(fields) + cellCount(Len(fields))
    /\ \A i \in 1..Len(visNodes) : mounted(i)

-----------------------------------------------------------------------------
(* Render, then save, with nothing in between *)

\* a title and a repeater of named items
IdentityFields ==
    <<Field(<<"title">>, "text", FALSE, NoCond, << >>),
      Repeater(<<"items">>, NoCond, <<Field(<<"name">>, "text", FALSE, NoCond, << >>)>>)>>

\* what the note holds at items: nothing, a string, or an array
IdentityItems ==
    {Undef, Str(<<"x">>), Arr(<< >>), Arr(<<Obj("name" :> Str(<<"A">>))>>)}

\* the note: the data at the document root, under form_data, or a note that
\* has no form_data yet
IdentityDocs(root) ==
    {IF root = << >> THEN ObjOf(<<"title", "items">>, <<Str(<<"t">>), items>>)
     ELSE Obj("form_data" :> ObjOf(<<"title", "items">>, <<Str(<<"t">>), items>>)) :
        items \in IdentityItems}
    \cup (IF root = << >> THEN {} ELSE {Obj("title" :> Str(<<"t">>))})

InitIdentity ==
    \E root \in Roots : \E d \in IdentityDocs(root) : \E am \in AutoModes :
        Rendered([form |-> "custom", custom |-> Arr(IdentityFields), modelRoot |-> root,
                  autosave |-> am[1], defaultAutosave |-> am[2]], d)

SpecIdentity == InitIdentity /\ [][Next]_vars

\* no user event since render() returned, and the document is the one render read
untouched ==
    /\ doc = fm
    /\ stagedModel = render(fm, cfg).model
    /\ inputs = render(fm, cfg).inputs
    /\ repOps = 0

\* C31: the write of a save made right after render, with no user event in
\* between, leaves the document exactly as it was, for every schema and
\* modelRoot, a repeater whose path is absent or no array included.
C31_SaveWithoutEditsIsIdentity ==
    [][(untouched /\ WriteApply) => doc' = doc]_vars

-----------------------------------------------------------------------------
(* The visibility sweep as a view update *)

\* updateVisibility() run on its own, as render() does after mounting and
\* every change handler does through triggerPostChange: it assigns the
\* display of each node's label and holder and nothing else
Sweep ==
    /\ ~probe.done
    /\ shown' = updateVisibility(fields, visNodes, stagedModel, shown)
    /\ probe' = [done |-> TRUE, value |-> Undef]
    /\ UNCHANGED <<cfg, doc, fm, aliased, stagedModel, saveBtnDisabled, status, visNodes,
                   inputs, cards, nPending, nWritten, repOps>>

\* a kind, and a detail shown for posts only
PureFields ==
    <<Field(<<"kind">>, "select", FALSE, NoCond, <<sNote, sPost>>),
      Field(<<"detail">>, "text", FALSE, Equals(<<"kind">>, Str(sPost)), << >>)>>

InitPure ==
    \E root \in Roots : \E kind \in {Str(sNote), Str(sPost)} : \E am \in AutoModes :
        Rendered([form |-> "custom", custom |-> Arr(PureFields), modelRoot |-> root,
                  autosave |-> am[1], defaultAutosave |-> am[2]],
                 LET data == ObjOf(<<"kind", "detail">>, <<kind, Str(<<"d">>)>>)
                 IN  IF root = << >> THEN data ELSE Obj("form_data" :> data))

NextPure == NextLenient \/ Sweep

SpecPure == InitPure /\ [][NextPure]_vars

\* node i is the node of a top-level scalar field that is hidden after the step
hiddenScalar(i, sh) ==
    /\ visNodes[i].ref[2] = 0
    /\ nodeField(fields, visNodes[i]).type # "repeater"
    /\ ~sh[i].holder

\* C32: the sweep changes neither the staged model, the Save button (the dirty
\* flag), the status nor the document, and a second run on its result gives
\* the same shown/hidden state; every step other than an input on the field
\* itself leaves the staged value of a hidden field as it was; and the write of
\* a save puts the staged value of every hidden field into the document.
C32_SweepIsPureView ==
    [][/\ Sweep => /\ UNCHANGED <<stagedModel, saveBtnDisabled, status, doc, fm>>
                   /\ updateVisibility(fields, visNodes', stagedModel', shown') = shown'
       /\ \A i \in 1..Len(visNodes) :
             (/\ hiddenScalar(i, shown')
              /\ ~ \E raw \in RawInputs(fields[visNodes[i].ref[1]]) :
                      ChangeTop(visNodes[i].ref[1], raw))
             => getAtPath(stagedModel', visNodes[i].bindPath)
                   = getAtPath(stagedModel, visNodes[i].bindPath)
       /\ WriteApply =>
             \A i \in 1..Len(visNodes) :
                (hiddenScalar(i, shown) /\ getAtPath(stagedModel, visNodes[i].bindPath) # Undef)
                => getAtPath(doc', modelRoot \o visNodes[i].bindPath)
                      = deepCloneJson(getAtPath(stagedModel, visNodes[i].bindPath))
      ]_vars

\* the detail was hidden by choosing note, the sweep has run on the hidden
\* field, and a save has written the kept detail next to the new kind
C32_Witness ==
    /\ probe.done
    /\ nWritten > 0
    /\ modelRoot = << >>
    /\ fm.v["kind"] = Str(sPost)
    /\ stagedModel.v["kind"] = Str(sNote)
    /\ ~shown[2].holder
    /\ stagedModel.v["detail"] = Str(<<"d">>)
    /\ doc.v["kind"] = Str(sNote)
    /\ doc.v["detail"] = Str(<<"d">>)

-----------------------------------------------------------------------------
(* The same kind of control at the top level and inside a repeater item *)

\* the kinds whose top-level control is the plain input of renderScalar
CoerceKinds == {"date", "time", "datetime-local", "number", "text"}

\* one field of the kind at the top level and one in every item
CoerceFields(kind) ==
    <<Field(<<"when">>, kind, FALSE, NoCond, << >>),
      Repeater(<<"items">>, NoCond, <<Field(<<"when">>, kind, FALSE, NoCond, << >>)>>)>>

InitCoerce ==
    \E kind \in CoerceKinds : \E am \in AutoModes :
        Rendered([form |-> "custom", custom |-> Arr(CoerceFields(kind)), modelRoot |-> << >>,
                  autosave |-> am[1], defaultAutosave |-> am[2]],
                 ObjOf(<<"when", "items">>,
                       <<Str(<<"x">>), Arr(<<Obj("when" :> Str(<<"x">>))>>)>>))

SpecCoerce == InitCoerce /\ [][Next]_vars

\* C33: an input on an item control stores coerceScalar(kind, raw) at the
\* item's path, the value a top-level control of the same kind stores; a
\* cleared date, time or datetime control stores null in both places.
C33_ItemsCoerceLikeTopLevel ==
    [][/\ \A k \in 1..Len(fields) : \A raw \in RawInputs(fields[k]) :
             ChangeTop(k, raw)
             => getAtPath(stagedModel', joinPath(modelRoot, fields[k].path))
                   = coerceScalar(fields[k].type, raw)
       /\ \A k \in 1..Len(fields) : \A idx \in 0..(cards[k] - 1) :
             \A j \in 1..Len(fields[k].itemSchema) :
                \A raw \in RawInputs(fields[k].itemSchema[j]) :
                   ChangeItem(k, idx, j, raw)
                   => LET sf == fields[k].itemSchema[j]
                          p == joinPath(modelRoot, fields[k].path) \o <<IdxKey(idx)>> \o sf.path
                      IN  /\ getAtPath(stagedModel', p) = coerceScalar(sf.type, raw)
                          /\ getAtPath(stagedModel', p) = storedTop(sf, raw).value
      ]_vars

-----------------------------------------------------------------------------
(* A number control that the user empties *)

\* a required count, and a required quantity in every item
NumberFields ==
    <<Field(<<"count">>, "number", TRUE, NoCond, << >>),
      Repeater(<<"items">>, NoCond, <<Field(<<"qty">>, "number", TRUE, NoCond, << >>)>>)>>

InitNumber ==
    \E root \in Roots : \E am \in AutoModes :
        Rendered([form |-> "custom", custom |-> Arr(NumberFields), modelRoot |-> root,
                  autosave |-> am[1], defaultAutosave |-> am[2]],
                 LET data == ObjOf(<<"count", "items">>,
                                   <<Num(7), Arr(<<Obj("qty" :> Num(7))>>)>>)
                 IN  IF root = << >> THEN data ELSE Obj("form_data" :> data))

SpecNumber == InitNumber /\ [][Next]_vars

\* the paths collectInvalids returns on model m
invalidPaths(m) ==
    LET inv == collectInvalids(fields, modelRoot, m) IN {inv[n] : n \in 1..Len(inv)}

\* C34: when the raw input of a number control is the empty string, top-level
\* or in an item, the value stored at its path is null, and the path of the
\* required field is among those collectInvalids returns.
C34_ClearedNumberIsNull ==
    [][/\ \A k \in 1..Len(fields) :
             (fields[k].type = "number" /\ ChangeTop(k, Str(<< >>)))
             => LET p == joinPath(modelRoot, fields[k].path) IN
                /\ getAtPath(stagedModel', p) = Null
                /\ fields[k].required => p \in invalidPaths(stagedModel')
       /\ \A k \in 1..Len(fields) : \A idx \in 0..(cards[k] - 1) :
             \A j \in 1..Len(fields[k].itemSchema) :
                (fields[k].itemSchema[j].type = "number" /\ ChangeItem(k, idx, j, Str(<< >>)))
                => LET sf == fields[k].itemSchema[j]
                       p == joinPath(modelRoot, fields[k].path) \o <<IdxKey(idx)>> \o sf.path
                   IN  /\ getAtPath(stagedModel', p) = Null
                       /\ sf.required => p \in invalidPaths(stagedModel')
      ]_vars

=============================================================================
